---- MODULE Spec2Model ----
(***************************************************************************)
(* Model of the rental-listing notification core of find_home_bot:         *)
(*   - src/parser/models.py       UserFilter.matches / matches_approx,     *)
(*                                commission parsing, pet-ban heuristic    *)
(*   - src/storage/database.py    seen_listings (is_seen / mark_seen /     *)
(*                                cleanup_old), user_filters               *)
(*   - src/scheduler/monitor.py   check_new_listings / _process_user /     *)
(*                                send_initial_listings                    *)
(*                                                                         *)
(* Text is a sequence of one-character strings.  The Russian phrases of    *)
(* the source are written in Latin transliteration (the module's strings   *)
(* are ASCII); upper-case letters stand for the upper-case Cyrillic ones.  *)
(* Floating-point areas are fixed-point integers in units of 0.1 m2, and   *)
(* the relative deviation d/thr > T/100 is compared exactly as             *)
(* d*100 > T*thr.                                                          *)
(*                                                                         *)
(* Specifications:                                                         *)
(*   SpecMatch    the matching engine on every input of the harness        *)
(*   SpecDb       is_seen / mark_seen under arbitrary calls                *)
(*   SpecMonitor  one user's commands and the monitoring pass, candidate   *)
(*                lists of up to MaxResults listings                       *)
(*   Spec         the monitoring pass and the initial-batch task           *)
(*                interleaved at their await points, short fetches         *)
(*   SpecBatch    the initial-batch task alone, called directly or         *)
(*                started by a confirmation                                *)
(*   SpecPass     two users' commands and the monitoring pass, in which    *)
(*                is_seen can raise                                        *)
(*   SpecFault    one user's commands and the monitoring pass, in which    *)
(*                is_seen and mark_seen can raise                          *)
(*   SpecEdit     one user's confirmations and filter edits and the        *)
(*                monitoring pass                                          *)
(*   SpecOrder    the monitoring pass for a user for whom an approximate   *)
(*                match can precede a strict one                           *)
(*   SpecLabel    the monitoring pass for one user interleaved with the    *)
(*                initial batch of another, short fetches                  *)
(*   SpecFetch    _aggregate_listings on every behaviour of the searches   *)
(*   SpecParse    _parse_commission_percent on a family of strings         *)
(*   SpecPrune    monitoring passes with cleanup_old and passing time      *)
(*   SpecStore    every writer of the database, with restarts              *)
(*   SpecWizard   the search wizard and the single-field edit              *)
(*   SpecRate     _is_rate_limited under calls of two users                *)
(*   SpecFrame    _fsm_data_to_user_filter over filters, fields and data   *)
(*   SpecPrice    the wizard with refused and accepted price inputs        *)
(*   SpecDest     _resolve_destination over users, configurations, topics  *)
(*   SpecCity     the wizard with the city selection up to its limit       *)
(* Database.mark_empty_notified is called by monitor.py and is not in      *)
(* database.py; it is modelled from the specification.  A raising          *)
(* is_seen is part of SpecPass and SpecFault only, a raising mark_seen of  *)
(* SpecFault only.                                                         *)
(***************************************************************************)
EXTENDS Integers, Sequences, FiniteSets, TLC

VARIABLES
    \* ---- pure-function harness (models.py) ----
    uf,             \* the UserFilter under evaluation
    listing,        \* the Listing under evaluation
    m_pc,           \* "call" before the evaluation, "done" after, "off" when unused
    matches_strict, \* result of uf.matches(listing)
    matches_approx_r, \* result of uf.matches_approx(listing)
    prev_tol,       \* tolerance_percent of the previous evaluation (-1: none)
    prev_approx,    \* matches_approx result of the previous evaluation
    agg_in,         \* what the three searches of the last _aggregate_listings call did
    agg_out,        \* what that call returned
    parse_call,     \* the last call of _parse_commission_percent: argument and result
    fsm_state,      \* the user's FSMContext state: a SearchWizard state or "none"
    fsm_data,       \* the user's FSMContext data: key -> value
    last_request_ts,  \* _LAST_REQUEST_TS_BY_USER
    rate_call,      \* the last call of _is_rate_limited: arguments and result
    edit_call,      \* the last call of _fsm_data_to_user_filter: arguments and result
    dest_call,      \* the last call of _resolve_destination: arguments and result
    price_input,    \* the price typed in the update handled last, if on_price_custom_max took it
    \* ---- storage (database.py) ----
    seen_listings,  \* table seen_listings: rows [source, listing_id, user_id, sent_at]
    now,            \* the clock behind datetime('now')
    db_op,          \* the last call of a Database method, with its result
    marked,         \* the triples mark_seen was ever called for
    user_filters,   \* table user_filters: user_id -> row
    \* ---- check_new_listings / _process_user (monitor.py) ----
    mon_pc,         \* position of the monitoring pass
    mon_filters,    \* active_filters, as read at the start of the pass
    mon_u,          \* index of the user being processed
    mon_listings,   \* listings: the aggregated candidate list
    mon_i,          \* index of the listing being processed
    mon_counts,     \* sent_count, approx_count, total_matching
    mon_log,        \* per processed listing: what _process_user did with it
    \* ---- send_initial_listings (monitor.py) ----
    ini_pc,         \* position of the initial batch task
    ini_filter,     \* the user_filter object on_confirm passed to the task
    ini_listings,   \* listings: the aggregated candidate list
    ini_i,          \* index in the classification loop / in to_send
    ini_strict,     \* strict: unseen strict matches
    ini_approx,     \* approx: unseen approximate matches
    ini_flags,      \* matched_but_seen, sent
    ini_to_send,    \* to_send[:limit]
    \* ---- history ----
    delivered,      \* per triple: successful dispatches by the pass / by the batch
    retry_due,      \* triples whose dispatch failed in an earlier user cycle
    failed_now,     \* triples whose dispatch failed in the current user cycle
    mon_notify,     \* the user's cycle: emptiness notifications tried / sent, mark_empty_notified calls
    ini_notify,     \* the same for the running initial batch
    streak,         \* per user: the run of cycles without a match since the last confirm
    ini_log,        \* the dispatches of the running initial batch, in order, with their outcome
    pass_log,       \* the _process_user calls of the running pass, in order: user, raised or not
    mon_trace       \* the list _aggregate_listings returned to the running cycle, and the
                    \* listings whose dispatch the cycle has attempted, in order

wvars == <<fsm_state, fsm_data, last_request_ts, rate_call, edit_call, dest_call,
          price_input>>
mvars == <<uf, listing, m_pc, matches_strict, matches_approx_r, prev_tol, prev_approx,
           agg_in, agg_out, parse_call, wvars>>
dbvars == <<seen_listings, now, db_op, marked>>
fvars == <<user_filters>>
monvars == <<mon_pc, mon_filters, mon_u, mon_listings, mon_i, mon_counts, mon_log>>
inivars == <<ini_pc, ini_filter, ini_listings, ini_i, ini_strict, ini_approx, ini_flags,
             ini_to_send>>
hvars == <<delivered, retry_due, failed_now>>
nvars == <<mon_notify, ini_notify, streak, ini_log, pass_log, mon_trace>>
sysvars == <<fvars, monvars, inivars, hvars, nvars>>
vars == <<mvars, dbvars, sysvars>>

\* ---- bounds ----
MaxTime == 2        \* the clock runs from 0 to MaxTime
MaxResults == 3     \* listings in the candidate list of one search

\* ------------------------------------------------------------------------
\* Text helpers (Python str semantics on character sequences)
\* ------------------------------------------------------------------------

UpperAlpha == <<"A","B","C","D","E","F","G","H","I","J","K","L","M",
                "N","O","P","Q","R","S","T","U","V","W","X","Y","Z">>
LowerAlpha == <<"a","b","c","d","e","f","g","h","i","j","k","l","m",
                "n","o","p","q","r","s","t","u","v","w","x","y","z">>

\* str.lower() on one character
LowerChar(c) ==
    IF \E i \in 1..Len(UpperAlpha) : UpperAlpha[i] = c
    THEN LowerAlpha[CHOOSE i \in 1..Len(UpperAlpha) : UpperAlpha[i] = c]
    ELSE c

\* str.lower()
str_lower(s) == [i \in 1..Len(s) |-> LowerChar(s[i])]

IsSpace(c) == c \in {" ", "\t", "\n"}

RECURSIVE lstrip(_)
lstrip(s) == IF s # <<>> /\ IsSpace(Head(s)) THEN lstrip(Tail(s)) ELSE s

RECURSIVE rstrip(_)
rstrip(s) ==
    IF s # <<>> /\ IsSpace(s[Len(s)]) THEN rstrip(SubSeq(s, 1, Len(s) - 1)) ELSE s

\* str.strip()
str_strip(s) == rstrip(lstrip(s))

\* Python's  `phrase in text`  (substring search)
str_contains(text, phrase) ==
    \E i \in 0..(Len(text) - Len(phrase)) :
        SubSeq(text, i + 1, i + Len(phrase)) = phrase

Digits == <<"0","1","2","3","4","5","6","7","8","9">>

IsDigit(c) == \E i \in 1..10 : Digits[i] = c

DigitVal(c) == (CHOOSE i \in 1..10 : Digits[i] = c) - 1

\* value of a run of decimal digits
RECURSIVE DigitsToNat(_)
DigitsToNat(ds) ==
    IF ds = <<>> THEN 0
    ELSE 10 * DigitsToNat(SubSeq(ds, 1, Len(ds) - 1)) + DigitVal(ds[Len(ds)])

\* ------------------------------------------------------------------------
\* models.py: static phrase lists
\* ------------------------------------------------------------------------

_PET_BAN_PHRASES ==
  { <<"b","e","z"," ","z","h","i","v","o","t","n","y","h">>,
    <<"b","e","z"," ","d","o","m","a","s","h","n","i","h"," ","z","h","i","v","o","t","n","y","h">>,
    <<"z","h","i","v","o","t","n","y","e"," ","z","a","p","r","e","s","h","c","h","e","n","y">>,
    <<"n","e"," ","s"," ","z","h","i","v","o","t","n","y","m","i">>,
    <<"b","e","z"," ","p","i","t","o","m","c","e","v">>,
    <<"p","i","t","o","m","c","y"," ","z","a","p","r","e","s","h","c","h","e","n","y">>,
    <<"z","h","i","v","o","t","n","y","h"," ","n","e"," ","d","e","r","z","h","a","t">>,
    <<"b","e","z"," ","k","o","s","h","e","k">>,
    <<"b","e","z"," ","s","o","b","a","k">>,
    <<"k","o","s","h","e","k"," ","i"," ","s","o","b","a","k"," ","n","e"," ","d","e","r","z","h","a","t">>,
    <<"p","r","o","z","h","i","v","a","n","i","e"," ","s"," ","z","h","i","v","o","t","n","y","m","i"," ","z","a","p","r","e","s","h","c","h","e","n","o">>,
    <<"p","r","o","z","h","i","v","a","n","i","e"," ","s"," ","z","h","i","v","o","t","n","y","m","i"," ","n","e"," ","d","o","p","u","s","k","a","e","t","s","y","a">>,
    <<"z","h","i","v","o","t","n","y","h"," ","n","e"," ","z","a","v","o","d","i","t">> }

_NO_COMMISSION_MARKERS ==
  { <<"b","e","z"," ","k","o","m","i","s","s","i","i">>,
    <<"k","o","m","i","s","s","i","y","a"," ","0">> }

\* ------------------------------------------------------------------------
\* models.py: _parse_commission_percent
\* ------------------------------------------------------------------------

\* Optional[int]: None, or an int
IntNone == [none |-> TRUE, val |-> 0]
IntSome(v) == [none |-> FALSE, val |-> v]

\* re.search(r"(\d+(?:[.,]\d+)?)\s*%?", lower): the leftmost digit run, with
\* an optional fraction ([.,] followed by at least one digit).  The result is
\* [found, ip, fp]: the digits of the integer part and of the fraction.
RECURSIVE DigitRun(_, _)
DigitRun(s, i) ==
    IF i <= Len(s) /\ IsDigit(s[i]) THEN <<s[i]>> \o DigitRun(s, i + 1) ELSE <<>>

commission_regex_search(lower) ==
    IF \E i \in 1..Len(lower) : IsDigit(lower[i])
    THEN LET start == CHOOSE i \in 1..Len(lower) :
                          /\ IsDigit(lower[i])
                          /\ \A j \in 1..(i - 1) : ~IsDigit(lower[j])
             ip    == DigitRun(lower, start)
             after == start + Len(ip)
             fp    == IF /\ after <= Len(lower)
                         /\ lower[after] \in {".", ","}
                      THEN DigitRun(lower, after + 1)
                      ELSE <<>>
         IN  [found |-> TRUE, ip |-> ip, fp |-> fp]
    ELSE [found |-> FALSE, ip |-> <<>>, fp |-> <<>>]

\* variant: a tie rounds up, as round() did in Python 2
round_half_up(ip, fp) ==
    IF fp # <<>> /\ DigitVal(fp[1]) >= 5 THEN DigitsToNat(ip) + 1 ELSE DigitsToNat(ip)

\* int(round(float("ip.fp"))): Python 3 rounds a tie to the even integer
round_half_even(ip, fp) ==
    LET n      == DigitsToNat(ip)
        above  == /\ fp # <<>>
                  /\ \/ DigitVal(fp[1]) > 5
                     \/ /\ DigitVal(fp[1]) = 5
                        /\ \E k \in 2..Len(fp) : fp[k] # "0"
        tie    == /\ fp # <<>>
                  /\ DigitVal(fp[1]) = 5
                  /\ \A k \in 2..Len(fp) : fp[k] = "0"
    IN  IF above THEN n + 1
        ELSE IF tie THEN (IF n % 2 = 0 THEN n ELSE n + 1)
        ELSE n

Min(a, b) == IF a <= b THEN a ELSE b
Max(a, b) == IF a >= b THEN a ELSE b

_parse_commission_percent(commission) ==
    IF commission = <<>> THEN IntSome(0)
    ELSE LET lower == str_strip(str_lower(commission)) IN
         IF lower \in { <<"0">>, <<"0","%">> } THEN IntSome(0)
         ELSE IF \E marker \in _NO_COMMISSION_MARKERS : str_contains(lower, marker)
              THEN IntSome(0)
         ELSE LET match == commission_regex_search(lower) IN
              IF match.found
              THEN IntSome(Min(100, Max(0, round_half_even(match.ip, match.fp))))
              ELSE IntNone

\* before the first call
NoParse == [called |-> FALSE, arg |-> <<>>, result |-> IntNone]

\* the texts around the number of a commission string
CommissionPrefixes ==
    { <<>>, <<" ">>, <<"a","g","e","n","t"," ">>,
      <<"K","o","m","i","s","s","i","y","a"," ">> }
CommissionSuffixes == { <<>>, <<"%">>, <<" ","%"," ">>, <<"%"," ","a","g","e","n","t","u">> }

\* integer parts and fractions of the number of a commission string
CommissionIntegers ==
    { <<"0">>, <<"1">>, <<"2">>, <<"3","5">>, <<"9","9">>, <<"1","0","0">>,
      <<"1","0","1">>, <<"1","5","0">> }
CommissionFractions ==
    { <<>>, <<",","5">>, <<".","5">>, <<".","5","0">>, <<".","5","1">>, <<".","4","9">>,
      <<".">> }

\* commission strings without a number, and the markers as sites write them
CommissionWords ==
    { <<>>, <<" ">>, <<"%">>, <<"a","g","e","n","t">>,
      <<"B","e","z"," ","k","o","m","i","s","s","i","i">>,
      <<"K","O","M","I","S","S","I","Y","A"," ","0">>,
      <<"a","r","e","n","d","a"," ","b","e","z"," ","k","o","m","i","s","s","i","i","!">> }

\* the arguments of _parse_commission_percent that are tried
CommissionInputs ==
    CommissionWords \cup
    { pre \o ip \o fp \o suf :
        pre \in CommissionPrefixes, ip \in CommissionIntegers,
        fp \in CommissionFractions, suf \in CommissionSuffixes }

\* result = _parse_commission_percent(commission)
Parse(commission) ==
    /\ parse_call' = [called |-> TRUE, arg |-> commission,
                  result |-> _parse_commission_percent(commission)]
    /\ UNCHANGED <<uf, listing, m_pc, matches_strict, matches_approx_r, prev_tol,
                   prev_approx, agg_in, agg_out, wvars>>

\* ------------------------------------------------------------------------
\* models.py: pet-ban heuristic
\* ------------------------------------------------------------------------

_has_pet_ban(text) ==
    LET lower == str_lower(text) IN
    \E phrase \in _PET_BAN_PHRASES : str_contains(lower, phrase)

_listing_has_pet_ban(l) ==
    _has_pet_ban(l.title \o <<" ">> \o l.description)

\* ------------------------------------------------------------------------
\* models.py: UserFilter.matches
\* ------------------------------------------------------------------------

\* mutant: a price equal to price_max is rejected
matches_price_max_exclusive(f, l) ==
    IF f.price_min # 0 /\ l.price < f.price_min THEN FALSE
    ELSE IF f.price_max # 0 /\ l.price >= f.price_max THEN FALSE
    ELSE IF f.area_min # 0 /\ l.total_area < f.area_min THEN FALSE
    ELSE IF f.kitchen_area_min # 0 /\ l.kitchen_area < f.kitchen_area_min THEN FALSE
    ELSE IF f.rooms # {} /\ l.rooms \notin f.rooms THEN FALSE
    ELSE IF f.renovation_types # {} /\ l.renovation \notin f.renovation_types THEN FALSE
    ELSE IF f.pets_allowed /\ _listing_has_pet_ban(l) THEN FALSE
    ELSE IF f.commission_max_percent < 100
         THEN LET parsed == _parse_commission_percent(l.commission) IN
              IF parsed.none THEN FALSE
              ELSE IF parsed.val > f.commission_max_percent THEN FALSE
              ELSE TRUE
    ELSE TRUE

\* a truthy number (`if self.price_min and ...`) is a non-zero one; a truthy
\* list (`if self.rooms and ...`) is a non-empty one
matches(f, l) ==
    IF f.price_min # 0 /\ l.price < f.price_min THEN FALSE
    ELSE IF f.price_max # 0 /\ l.price > f.price_max THEN FALSE
    ELSE IF f.area_min # 0 /\ l.total_area < f.area_min THEN FALSE
    ELSE IF f.kitchen_area_min # 0 /\ l.kitchen_area < f.kitchen_area_min THEN FALSE
    ELSE IF f.rooms # {} /\ l.rooms \notin f.rooms THEN FALSE
    ELSE IF f.renovation_types # {} /\ l.renovation \notin f.renovation_types THEN FALSE
    ELSE IF f.pets_allowed /\ _listing_has_pet_ban(l) THEN FALSE
    ELSE IF f.commission_max_percent < 100
         THEN LET parsed == _parse_commission_percent(l.commission) IN
              IF parsed.none THEN FALSE
              ELSE IF parsed.val > f.commission_max_percent THEN FALSE
              ELSE TRUE
    ELSE TRUE

\* ------------------------------------------------------------------------
\* models.py: UserFilter.matches_approx
\* ------------------------------------------------------------------------

\* Optional[List[str]]: None, or a list of deviations
ListNone == [none |-> TRUE, devs |-> <<>>]
ListSome(d) == [none |-> FALSE, devs |-> d]

\* f"{x:.0%}" for x = d / thr: the percentage rounded to a whole number
\* (a tie goes to the even one)
format_percent(d, thr) ==
    LET q == (100 * d) \div thr
        r == (100 * d) % thr
    IN  IF 2 * r > thr THEN q + 1
        ELSE IF 2 * r = thr THEN (IF q % 2 = 0 THEN q ELSE q + 1)
        ELSE q

\* mutant: a deviation exactly equal to the tolerance is rejected
approx_criterion_rejects_equal(acc, f, violated, d, thr, kind) ==
    IF acc.none THEN acc
    ELSE IF violated
         THEN IF d * 100 >= f.tolerance_percent * thr
              THEN ListNone
              ELSE ListSome(Append(acc.devs, [kind |-> kind, pct |-> format_percent(d, thr)]))
    ELSE acc

\* mutant: the tolerance is not checked, every violation becomes a deviation
approx_criterion_ignores_tolerance(acc, f, violated, d, thr, kind) ==
    IF acc.none THEN acc
    ELSE IF violated
         THEN ListSome(Append(acc.devs, [kind |-> kind, pct |-> format_percent(d, thr)]))
    ELSE acc

\* one numeric criterion of matches_approx: `acc` is the state of the
\* function so far (none: it has returned None; devs: the deviations list).
\* d is the violation (threshold - value, or value - threshold), and
\* `under > factor` is d / thr > tolerance_percent / 100.
approx_criterion(acc, f, violated, d, thr, kind) ==
    IF acc.none THEN acc
    ELSE IF violated
         THEN IF d * 100 > f.tolerance_percent * thr
              THEN ListNone
              ELSE ListSome(Append(acc.devs, [kind |-> kind, pct |-> format_percent(d, thr)]))
    ELSE acc

\* mutant: a value of 0 is taken as "not reported" and its minimum is skipped
approx_numeric_skips_unknown(f, l) ==
    LET a0 == ListSome(<<>>)
        a1 == approx_criterion(a0, f,
                               f.price_min # 0 /\ l.price # 0 /\ l.price < f.price_min,
                               f.price_min - l.price, f.price_min, "price_below")
        a2 == approx_criterion(a1, f, f.price_max # 0 /\ l.price > f.price_max,
                               l.price - f.price_max, f.price_max, "price_above")
        a3 == approx_criterion(a2, f,
                               f.area_min # 0 /\ l.total_area # 0 /\ l.total_area < f.area_min,
                               f.area_min - l.total_area, f.area_min, "area_below")
        a4 == approx_criterion(a3, f,
                               /\ f.kitchen_area_min # 0
                               /\ l.kitchen_area # 0
                               /\ l.kitchen_area < f.kitchen_area_min,
                               f.kitchen_area_min - l.kitchen_area, f.kitchen_area_min,
                               "kitchen_below")
    IN  a4

approx_numeric(f, l) ==
    LET a0 == ListSome(<<>>)
        a1 == approx_criterion(a0, f, f.price_min # 0 /\ l.price < f.price_min,
                               f.price_min - l.price, f.price_min, "price_below")
        a2 == approx_criterion(a1, f, f.price_max # 0 /\ l.price > f.price_max,
                               l.price - f.price_max, f.price_max, "price_above")
        a3 == approx_criterion(a2, f, f.area_min # 0 /\ l.total_area < f.area_min,
                               f.area_min - l.total_area, f.area_min, "area_below")
        a4 == approx_criterion(a3, f,
                               f.kitchen_area_min # 0 /\ l.kitchen_area < f.kitchen_area_min,
                               f.kitchen_area_min - l.kitchen_area, f.kitchen_area_min,
                               "kitchen_below")
    IN  a4

\* mutant: the final `if deviations else None` is forgotten
matches_approx_returns_empty_list(f, l) ==
    IF f.tolerance_percent <= 0 THEN ListNone
    ELSE IF f.rooms # {} /\ l.rooms \notin f.rooms THEN ListNone
    ELSE IF f.renovation_types # {} /\ l.renovation \notin f.renovation_types THEN ListNone
    ELSE IF f.pets_allowed /\ _listing_has_pet_ban(l) THEN ListNone
    ELSE IF /\ f.commission_max_percent < 100
            /\ LET parsed == _parse_commission_percent(l.commission) IN
               parsed.none \/ parsed.val > f.commission_max_percent
         THEN ListNone
    ELSE approx_numeric(f, l)

\* mutant: an unrecognized commission passes the commission gate
matches_approx_unparsed_commission_passes(f, l) ==
    IF f.tolerance_percent <= 0 THEN ListNone
    ELSE IF f.rooms # {} /\ l.rooms \notin f.rooms THEN ListNone
    ELSE IF f.renovation_types # {} /\ l.renovation \notin f.renovation_types THEN ListNone
    ELSE IF f.pets_allowed /\ _listing_has_pet_ban(l) THEN ListNone
    ELSE IF /\ f.commission_max_percent < 100
            /\ LET parsed == _parse_commission_percent(l.commission) IN
               ~parsed.none /\ parsed.val > f.commission_max_percent
         THEN ListNone
    ELSE LET r == approx_numeric(f, l) IN
         IF r.none THEN ListNone
         ELSE IF r.devs # <<>> THEN ListSome(r.devs) ELSE ListNone

matches_approx(f, l) ==
    IF f.tolerance_percent <= 0 THEN ListNone
    ELSE IF f.rooms # {} /\ l.rooms \notin f.rooms THEN ListNone
    ELSE IF f.renovation_types # {} /\ l.renovation \notin f.renovation_types THEN ListNone
    ELSE IF f.pets_allowed /\ _listing_has_pet_ban(l) THEN ListNone
    ELSE IF /\ f.commission_max_percent < 100
            /\ LET parsed == _parse_commission_percent(l.commission) IN
               parsed.none \/ parsed.val > f.commission_max_percent
         THEN ListNone
    ELSE LET r == approx_numeric(f, l) IN
         IF r.none THEN ListNone
         ELSE IF r.devs # <<>> THEN ListSome(r.devs) ELSE ListNone

\* ------------------------------------------------------------------------
\* Records (models.py: Listing, UserFilter) and the inputs of the harness
\* ------------------------------------------------------------------------

MkListing(src, id, title, description, price, total_area, kitchen_area, rooms, renovation, commission) ==
    [ source |-> src, listing_id |-> id, title |-> title, description |-> description,
      price |-> price, total_area |-> total_area, kitchen_area |-> kitchen_area,
      rooms |-> rooms, renovation |-> renovation, commission |-> commission ]

MkFilter(user, price_min, price_max, area_min, kitchen_area_min, rooms, renovation_types, pets_allowed, commission_max_percent, tolerance_percent) ==
    [ user_id |-> user, price_min |-> price_min, price_max |-> price_max,
      area_min |-> area_min, kitchen_area_min |-> kitchen_area_min,
      rooms |-> rooms, renovation_types |-> renovation_types,
      pets_allowed |-> pets_allowed,
      commission_max_percent |-> commission_max_percent,
      tolerance_percent |-> tolerance_percent ]

\* texts (title, description)
TxtFlat     == <<"K","v","a","r","t","i","r","a">>
TxtBezKoshek == <<"B","e","z"," ","K","o","s","h","e","k">>
TxtBez      == <<"b","e","z">>
TxtSobak    == <<"s","o","b","a","k">>
TxtKoshka   == <<"m","o","z","h","n","o"," ","s"," ","k","o","s","h","k","o","y">>

\* (title, description) pairs: no ban; a ban in mixed case; a ban phrase that
\* only exists across the joined title and description; no ban
TextPairs ==
    { <<TxtFlat, <<>> >>, <<TxtFlat, TxtBezKoshek>>, <<TxtBez, TxtSobak>>,
      << <<>>, TxtKoshka>> }

\* commission strings: "", "50%", "agent", "60%", "Bez komissii", "2,5%"
CommissionTexts ==
    { <<>>, <<"5","0","%">>, <<"a","g","e","n","t">>, <<"6","0","%">>,
      <<"B","e","z"," ","k","o","m","i","s","s","i","i">>, <<"2",",","5","%">> }

Tolerances == {0, 10, 20, 50}

\* prices in thousands of rubles; the threshold, when set, is 100
PriceThresholds == {0, 100}
Prices == {0, 50, 80, 90, 100, 105, 110, 120, 125, 160}
\* areas in 0.1 m2; the thresholds, when set, are 50.0 and 10.0 m2
AreaThresholds == {0, 500}
Areas == {0, 400, 452, 500}
KitchenThresholds == {0, 100}
KitchenAreas == {0, 90, 100}

RoomFilters == { {}, {1, 2} }
RoomCounts == {0, 2, 3}
RenovationFilters == { {}, {"euro", "designer"} }
Renovations == {"", "euro", "cosmetic"}
CommissionLimits == {0, 50, 100}

\* the hard criteria at which every hard check passes, and one variant per
\* hard check that fails (rooms, renovation, pet ban, commission too high,
\* commission unrecognized): [rooms_f, rooms, reno_f, reno, pets, text, cmax, com]
HardCases ==
    { [rf |-> {1, 2}, r |-> 2, nf |-> {"euro", "designer"}, n |-> "euro", pets |-> TRUE,
       txt |-> <<TxtFlat, <<>> >>, cmax |-> 50, com |-> <<"5","0","%">>],
      [rf |-> {1, 2}, r |-> 3, nf |-> {"euro", "designer"}, n |-> "euro", pets |-> TRUE,
       txt |-> <<TxtFlat, <<>> >>, cmax |-> 50, com |-> <<"5","0","%">>],
      [rf |-> {1, 2}, r |-> 2, nf |-> {"euro", "designer"}, n |-> "cosmetic", pets |-> TRUE,
       txt |-> <<TxtFlat, <<>> >>, cmax |-> 50, com |-> <<"5","0","%">>],
      [rf |-> {1, 2}, r |-> 2, nf |-> {"euro", "designer"}, n |-> "euro", pets |-> TRUE,
       txt |-> <<TxtFlat, TxtBezKoshek>>, cmax |-> 50, com |-> <<"5","0","%">>],
      [rf |-> {1, 2}, r |-> 2, nf |-> {"euro", "designer"}, n |-> "euro", pets |-> TRUE,
       txt |-> <<TxtFlat, <<>> >>, cmax |-> 50, com |-> <<"6","0","%">>],
      [rf |-> {1, 2}, r |-> 2, nf |-> {"euro", "designer"}, n |-> "euro", pets |-> TRUE,
       txt |-> <<TxtFlat, <<>> >>, cmax |-> 50, com |-> <<"a","g","e","n","t">>] }

\* the numeric criteria for the family that varies the hard ones: no threshold
\* set; price_max within 10 %; price_max beyond 20 %
NumericCases ==
    { [pmin |-> 0, pmax |-> 0, amin |-> 0, kmin |-> 0, p |-> 100, a |-> 500, k |-> 100],
      [pmin |-> 0, pmax |-> 100, amin |-> 0, kmin |-> 0, p |-> 105, a |-> 500, k |-> 100],
      [pmin |-> 0, pmax |-> 100, amin |-> 500, kmin |-> 0, p |-> 125, a |-> 452, k |-> 100] }

\* family A: every combination of the numeric criteria, at each hard case
InputsNumeric ==
    { << MkFilter(1, pmin, pmax, amin, kmin, h.rf, h.nf, h.pets, h.cmax, tol),
         MkListing("cian", 1, h.txt[1], h.txt[2], p, a, k, h.r, h.n, h.com) >> :
        pmin \in PriceThresholds, pmax \in PriceThresholds, amin \in AreaThresholds,
        kmin \in KitchenThresholds, p \in Prices, a \in Areas, k \in KitchenAreas,
        tol \in Tolerances, h \in HardCases }

\* family B: every combination of the hard criteria, at each numeric case
InputsHard ==
    { << MkFilter(1, n.pmin, n.pmax, n.amin, n.kmin, rf, nf, pets, cmax, tol),
         MkListing("cian", 1, txt[1], txt[2], n.p, n.a, n.k, r, reno, com) >> :
        rf \in RoomFilters, r \in RoomCounts, nf \in RenovationFilters,
        reno \in Renovations, pets \in BOOLEAN, txt \in TextPairs,
        cmax \in CommissionLimits, com \in CommissionTexts,
        tol \in Tolerances, n \in NumericCases }

Inputs == InputsNumeric \cup InputsHard

\* ------------------------------------------------------------------------
\* The harness: evaluate matches and matches_approx as _process_user does
\* (monitor.py, lines 86-87), then re-evaluate under another tolerance
\* ------------------------------------------------------------------------

Evaluate ==
    /\ m_pc = "call"
    /\ matches_strict' = matches(uf, listing)
    /\ matches_approx_r' = matches_approx(uf, listing)
    /\ m_pc' = "done"
    /\ UNCHANGED <<uf, listing, prev_tol, prev_approx, agg_in, agg_out, parse_call, wvars>>

\* the same filter with another tolerance_percent, all other fields equal
Retune ==
    /\ m_pc = "done"
    /\ \E t \in Tolerances \ {uf.tolerance_percent} :
          /\ uf' = [uf EXCEPT !.tolerance_percent = t]
          /\ matches_strict' = matches(uf', listing)
          /\ matches_approx_r' = matches_approx(uf', listing)
    /\ prev_tol' = uf.tolerance_percent
    /\ prev_approx' = matches_approx_r
    /\ m_pc' = "redone"
    /\ UNCHANGED <<listing, agg_in, agg_out, parse_call, wvars>>

\* ------------------------------------------------------------------------
\* database.py: table seen_listings
\* ------------------------------------------------------------------------

Users == {1, 2}
Sources == {"cian", "avito", "yandex"}

\* the key of a row: PRIMARY KEY (source, listing_id, user_id)
RowKey(row) == <<row.source, row.listing_id, row.user_id>>

\* mutant: the lookup leaves the source out (the key of the table before the
\* source column was added)
is_seen_ignores_source(table, source, listing_id, user_id) ==
    \E row \in table : row.listing_id = listing_id /\ row.user_id = user_id

\* SELECT 1 FROM seen_listings WHERE source = ? AND listing_id = ? AND user_id = ?
is_seen(table, source, listing_id, user_id) ==
    \E row \in table : RowKey(row) = <<source, listing_id, user_id>>

\* mutant: INSERT OR REPLACE, the row of an already-seen triple is rewritten
mark_seen_replaces(table, source, listing_id, user_id, t) ==
    {row \in table : RowKey(row) # <<source, listing_id, user_id>>}
        \cup {[source |-> source, listing_id |-> listing_id, user_id |-> user_id,
               sent_at |-> t]}

\* INSERT OR IGNORE INTO seen_listings (source, listing_id, user_id): the
\* table after the call; sent_at defaults to datetime('now')
mark_seen(table, source, listing_id, user_id, t) ==
    IF \E row \in table : RowKey(row) = <<source, listing_id, user_id>>
    THEN table
    ELSE table \cup {[source |-> source, listing_id |-> listing_id,
                      user_id |-> user_id, sent_at |-> t]}

\* the triples the storage harness calls the methods with: one triple, and
\* one more that differs from it in the source, in the id, in the user
DbKeys == { <<"cian", 1, 1>>, <<"avito", 1, 1>>, <<"cian", 2, 1>>, <<"cian", 1, 2>> }

NoOp == [op |-> "none", key |-> <<"", 0, 0>>, result |-> FALSE, before |-> {}]

\* a direct call of Database.is_seen
DbIsSeen(s, id, u) ==
    /\ db_op' = [op |-> "is_seen", key |-> <<s, id, u>>,
                 result |-> is_seen(seen_listings, s, id, u),
                 before |-> {}]
    /\ UNCHANGED <<seen_listings, now, marked>>

\* a direct call of Database.mark_seen; db_op keeps whether the triple was
\* already seen and the table before the call
DbMarkSeen(s, id, u) ==
    /\ seen_listings' = mark_seen(seen_listings, s, id, u, now)
    /\ marked' = marked \cup {<<s, id, u>>}
    /\ db_op' = [op |-> "mark_seen", key |-> <<s, id, u>>,
                 result |-> is_seen(seen_listings, s, id, u),
                 before |-> seen_listings]
    /\ UNCHANGED now

\* DELETE FROM seen_listings WHERE sent_at < datetime('now', '-N days'): the
\* table after the call at time t.  Time is counted in units of 30 days and
\* the window in the same units.
cleanup_old(table, t, window) == {row \in table : ~(row.sent_at < t - window)}

\* the retention windows the prune is called with: 30 days (the default) and
\* 60 days
RetentionWindows == {1, 2}

\* a call of Database.cleanup_old; db_op keeps the table before the call
DbCleanupOld(window) ==
    /\ seen_listings' = cleanup_old(seen_listings, now, window)
    /\ db_op' = [op |-> "cleanup_old", key |-> <<"", 0, 0>>, result |-> FALSE,
                 before |-> seen_listings]
    /\ UNCHANGED <<now, marked>>

\* time passes
Tick ==
    /\ now < MaxTime
    /\ now' = now + 1
    /\ UNCHANGED <<seen_listings, db_op, marked>>

\* ------------------------------------------------------------------------
\* database.py: table user_filters
\* ------------------------------------------------------------------------

\* the cities of a UserFilter: [1] unless the constructor is given a list
filter_cities(f) == IF "cities" \in DOMAIN f THEN f.cities ELSE <<1>>

\* a row of user_filters / a UserFilter object with its bookkeeping fields
StoredFilter(f, initial_listings_count, is_active, empty_notified_at) ==
    [ user_id |-> f.user_id, cities |-> filter_cities(f), price_min |-> f.price_min, price_max |-> f.price_max,
      area_min |-> f.area_min, kitchen_area_min |-> f.kitchen_area_min,
      rooms |-> f.rooms, renovation_types |-> f.renovation_types,
      pets_allowed |-> f.pets_allowed,
      commission_max_percent |-> f.commission_max_percent,
      tolerance_percent |-> f.tolerance_percent,
      initial_listings_count |-> initial_listings_count,
      is_active |-> is_active,
      empty_notified_at |-> empty_notified_at ]

\* the cities column of a row: the list of the filter, read back as written
cities_column(cities) == cities

\* INSERT ... ON CONFLICT(user_id) DO UPDATE SET <every criterion, is_active>:
\* the columns the statement does not name keep their value
upsert_filter(table, f) ==
    LET row == [ StoredFilter(f, f.initial_listings_count, f.is_active,
                              IF f.user_id \in DOMAIN table
                              THEN table[f.user_id].empty_notified_at
                              ELSE IntNone)
                 EXCEPT !.cities = cities_column(@) ]
    IN  [u \in DOMAIN table \cup {f.user_id} |-> IF u = f.user_id THEN row ELSE table[u]]

\* a set of user ids as a sequence in ascending order (the rows of a table
\* with an INTEGER PRIMARY KEY come back in key order)
RECURSIVE Ascending(_)
Ascending(S) ==
    IF S = {} THEN <<>>
    ELSE LET m == CHOOSE x \in S : \A y \in S : x <= y
         IN  <<m>> \o Ascending(S \ {m})

\* mutant: SELECT * FROM user_filters
get_active_filters_all(table) ==
    LET ids == Ascending(DOMAIN table)
    IN  [i \in 1..Len(ids) |-> table[ids[i]]]

\* SELECT * FROM user_filters WHERE is_active = 1
get_active_filters(table) ==
    LET ids == Ascending({u \in DOMAIN table : table[u].is_active})
    IN  [i \in 1..Len(ids) |-> table[ids[i]]]

\* mutant: the mark is not written
mark_empty_notified_lost(table, user_id, t) == table

\* UPDATE user_filters SET empty_notified_at = now WHERE user_id = ?
mark_empty_notified(table, user_id, t) ==
    [u \in DOMAIN table |->
        IF u = user_id THEN [table[u] EXCEPT !.empty_notified_at = IntSome(t)]
        ELSE table[u]]

\* ------------------------------------------------------------------------
\* The listings the sources hold and the filters the wizard produces
\* ------------------------------------------------------------------------

\* cian 1: 100 000 rubles, no commission stated
ListingA == MkListing("cian", 1, TxtFlat, <<>>, 100, 500, 100, 2, "euro", <<>>)
\* avito 1 (the same numeric id on another source): 105 000 rubles, "50%"
ListingB == MkListing("avito", 1, TxtFlat, <<>>, 105, 500, 100, 2, "euro",
                      <<"5","0","%">>)
\* cian 2: 125 000 rubles, "Bez komissii"
ListingC == MkListing("cian", 2, TxtFlat, TxtKoshka, 125, 452, 90, 3, "cosmetic",
                      <<"B","e","z"," ","k","o","m","i","s","s","i","i">>)

Catalogue == {ListingA, ListingB, ListingC}

\* user 1: price_max 100 000, tolerance 10 % (A strict, B approximate, C no
\* match); user 2: price_min 110 000, tolerance 10 % (C strict, A and B
\* approximate)
WizardFilter(u) ==
    IF u = 1 THEN MkFilter(1, 0, 100, 0, 0, {}, {}, TRUE, 100, 10)
    ELSE MkFilter(u, 110, 0, 0, 0, {}, {}, TRUE, 100, 10)

InitialCounts == {0, 1, 2}

ListingKey(l, u) == <<l.source, l.listing_id, u>>

Triples == {ListingKey(l, u) : l \in Catalogue, u \in Users}

\* ------------------------------------------------------------------------
\* monitor.py: _aggregate_listings
\* ------------------------------------------------------------------------

\* what one source's search_listings may do: raise, or return up to
\* MaxResults of its listings in any order, repetitions included (a listing
\* can be on two result pages)
SearchOutcomes(src) ==
    {[raises |-> TRUE, results |-> <<>>]} \cup
    {[raises |-> FALSE, results |-> r] :
        r \in UNION {[1..k -> {l \in Catalogue : l.source = src}] : k \in 0..MaxResults}}

\* mutant: the error of a source ends the aggregation
_aggregate_listings_propagates(cian, avito, yandex) ==
    LET extend(all, r) == all \o r.results
    IN  IF cian.raises THEN <<>>
        ELSE IF avito.raises THEN extend(<<>>, cian)
        ELSE extend(extend(extend(<<>>, cian), avito), yandex)

\* for name, search_fn in [CIAN, Avito, Yandex]: all_listings.extend(results),
\* a source that raises is skipped
_aggregate_listings(cian, avito, yandex) ==
    LET extend(all, r) == IF r.raises THEN all ELSE all \o r.results
    IN  extend(extend(extend(<<>>, cian), avito), yandex)

\* the outcomes of the three searches of one fetch: together at most
\* MaxResults listings
Fetches ==
    {r \in SearchOutcomes("cian") \X SearchOutcomes("avito") \X SearchOutcomes("yandex") :
        Len(_aggregate_listings(r[1], r[2], r[3])) <= MaxResults}

\* yandex 1: 200 000 rubles
ListingD == MkListing("yandex", 1, TxtFlat, <<>>, 200, 500, 100, 2, "euro", <<>>)

\* the listings the three sources can return to a call of _aggregate_listings
\* on its own
Offers == Catalogue \cup {ListingD}

OfferedOutcomes(src) ==
    {[raises |-> TRUE, results |-> <<>>]} \cup
    {[raises |-> FALSE, results |-> r] :
        r \in UNION {[1..k -> {l \in Offers : l.source = src}] : k \in 0..MaxResults}}

OfferedFetches ==
    {r \in OfferedOutcomes("cian") \X OfferedOutcomes("avito") \X OfferedOutcomes("yandex") :
        Len(r[1].results) + Len(r[2].results) + Len(r[3].results) <= MaxResults}

\* before the first call: no search has run
NoSearch == [k \in 1..3 |-> [raises |-> FALSE, results |-> <<>>]]

\* listings = await _aggregate_listings(user_filter), the searches behaving
\* as r says
Aggregate(r) ==
    /\ agg_in' = r
    /\ agg_out' = _aggregate_listings(r[1], r[2], r[3])
    /\ UNCHANGED <<uf, listing, m_pc, matches_strict, matches_approx_r, prev_tol,
                   prev_approx, parse_call, wvars>>

\* ------------------------------------------------------------------------
\* monitor.py: check_new_listings / _process_user
\* ------------------------------------------------------------------------

ZeroCounts == [sent_count |-> 0, approx_count |-> 0, total_matching |-> 0]

\* the run of a user's consecutive cycles without a match: "none" before the
\* first such cycle, "empty" after cycles none of which sent the
\* notification, "notified" once one of them has sent it; a cycle with a
\* match ends the run
StreakAfter(before, any_match, sent) ==
    IF any_match THEN "none"
    ELSE IF sent \/ before = "notified" THEN "notified"
    ELSE "empty"

\* mutant: an approximate match is dispatched like a strict one
SendNote_plain(f, l) == ListNone

\* the deviations argument of _send_listing: none for a strict match, the
\* result of matches_approx for an approximate one
SendNote(f, l) ==
    IF matches(f, l) THEN ListNone ELSE matches_approx(f, l)

\* no cycle runs: nothing fetched, nothing dispatched
NoTrace == [fetched |-> <<>>, sends |-> <<>>, notes |-> <<>>]

\* no emptiness notification tried or sent, no mark_empty_notified call
NoNotes == [tried |-> 0, sent |-> 0, marked |-> 0]

Saturate(n) == IF n < 2 THEN n + 1 ELSE n

\* mutant: the notification does not look at empty_notified_at
MonLoopExit_renotifies(counts, f) ==
    IF counts.sent_count > 0 \/ counts.approx_count > 0 THEN "return"
    ELSE IF counts.total_matching = 0 THEN "notify"
    ELSE "return"

\* after the for loop of _process_user: log, notify, or nothing
MonLoopExit(counts, f) ==
    IF counts.sent_count > 0 \/ counts.approx_count > 0 THEN "return"
    ELSE IF counts.total_matching = 0 /\ f.empty_notified_at.none THEN "notify"
    ELSE "return"

\* the position after listing mon_i has been dealt with
MonAdvance(counts) ==
    /\ mon_i' = mon_i + 1
    /\ mon_counts' = counts
    /\ mon_pc' = IF mon_i + 1 <= Len(mon_listings) THEN "check"
                 ELSE MonLoopExit(counts, mon_filters[mon_u])

\* check_new_listings: active_filters = await db.get_active_filters()
MonStart ==
    /\ mon_pc = "idle"
    /\ LET active == get_active_filters(user_filters) IN
          /\ mon_filters' = active
          /\ IF active = <<>>
             THEN mon_pc' = "idle" /\ mon_u' = 0
             ELSE mon_pc' = "fetch" /\ mon_u' = 1
    /\ UNCHANGED <<mon_listings, mon_i, mon_counts, mon_log>>
    /\ UNCHANGED <<dbvars, fvars, inivars, hvars>>
    /\ pass_log' = <<>>
    /\ UNCHANGED <<mon_notify, ini_notify, streak, ini_log, mon_trace>>

\* mutant: the cycle puts the strict matches first, as the initial batch does
MonFetch_strict_first(r) ==
    /\ mon_pc = "fetch"
    /\ LET ls == _aggregate_listings(r[1], r[2], r[3])
           strict(l) == matches(mon_filters[mon_u], l)
           other(l) == ~matches(mon_filters[mon_u], l)
       IN  /\ mon_listings' = SelectSeq(ls, strict) \o SelectSeq(ls, other)
           /\ mon_pc' = IF ls = <<>> THEN MonLoopExit(ZeroCounts, mon_filters[mon_u])
                        ELSE "check"
    /\ mon_i' = 1
    /\ mon_counts' = ZeroCounts
    /\ mon_log' = <<>>
    /\ UNCHANGED <<mon_filters, mon_u>>
    /\ UNCHANGED <<dbvars, fvars, inivars, hvars>>
    /\ mon_notify' = NoNotes
    /\ pass_log' = Append(pass_log, [user |-> mon_filters[mon_u].user_id, raised |-> FALSE])
    /\ mon_trace' = [fetched |-> _aggregate_listings(r[1], r[2], r[3]), sends |-> <<>>,
                     notes |-> <<>>]
    /\ UNCHANGED <<ini_notify, ini_log, streak>>

\* _process_user: listings = await _aggregate_listings(user_filter)
MonFetch(r) ==
    /\ mon_pc = "fetch"
    /\ LET ls == _aggregate_listings(r[1], r[2], r[3]) IN
          /\ mon_listings' = ls
          /\ mon_pc' = IF ls = <<>> THEN MonLoopExit(ZeroCounts, mon_filters[mon_u])
                       ELSE "check"
    /\ mon_i' = 1
    /\ mon_counts' = ZeroCounts
    /\ mon_log' = <<>>
    /\ UNCHANGED <<mon_filters, mon_u>>
    /\ UNCHANGED <<dbvars, fvars, inivars, hvars>>
    /\ mon_notify' = NoNotes
    /\ pass_log' = Append(pass_log, [user |-> mon_filters[mon_u].user_id, raised |-> FALSE])
    /\ mon_trace' = [fetched |-> _aggregate_listings(r[1], r[2], r[3]), sends |-> <<>>,
                     notes |-> <<>>]
    /\ UNCHANGED <<ini_notify, ini_log, streak>>

\* mutant: total_matching is counted after the is_seen check, for unseen
\* listings only
MonCheck_counts_after_seen ==
    /\ mon_pc = "check"
    /\ LET f       == mon_filters[mon_u]
           l       == mon_listings[mon_i]
           key     == ListingKey(l, f.user_id)
           strict  == matches(f, l)
           approx  == matches_approx(f, l)
           matched == strict \/ ~approx.none
           counts  == IF matched
                      THEN [mon_counts EXCEPT !.total_matching = @ + 1]
                      ELSE mon_counts
           entry(o) == [outcome |-> o,
                        due |-> matched /\ key \in retry_due,
                        fresh |-> delivered[key].mon + delivered[key].ini = 0]
       IN  /\ retry_due' = IF matched THEN retry_due \ {key} ELSE retry_due
           /\ IF is_seen(seen_listings, l.source, l.listing_id, f.user_id)
              THEN /\ mon_log' = Append(mon_log, entry("seen"))
                   /\ MonAdvance(mon_counts)
              ELSE IF matched
              THEN /\ mon_log' = Append(mon_log, entry("attempt"))
                   /\ mon_pc' = "send"
                   /\ mon_counts' = counts
                   /\ UNCHANGED mon_i
              ELSE /\ mon_log' = Append(mon_log, entry("nomatch"))
                   /\ MonAdvance(counts)
    /\ UNCHANGED <<mon_filters, mon_u, mon_listings>>
    /\ UNCHANGED <<dbvars, fvars, inivars, delivered, failed_now>>
    /\ UNCHANGED nvars

\* one iteration of the for loop up to the dispatch: matches, matches_approx,
\* total_matching, await db.is_seen
MonCheck ==
    /\ mon_pc = "check"
    /\ LET f       == mon_filters[mon_u]
           l       == mon_listings[mon_i]
           key     == ListingKey(l, f.user_id)
           strict  == matches(f, l)
           approx  == matches_approx(f, l)
           matched == strict \/ ~approx.none
           counts  == IF matched
                      THEN [mon_counts EXCEPT !.total_matching = @ + 1]
                      ELSE mon_counts
           entry(o) == [outcome |-> o,
                        due |-> matched /\ key \in retry_due,
                        fresh |-> delivered[key].mon + delivered[key].ini = 0]
       IN  /\ retry_due' = IF matched THEN retry_due \ {key} ELSE retry_due
           /\ IF is_seen(seen_listings, l.source, l.listing_id, f.user_id)
              THEN /\ mon_log' = Append(mon_log, entry("seen"))
                   /\ MonAdvance(counts)
              ELSE IF matched
              THEN /\ mon_log' = Append(mon_log, entry("attempt"))
                   /\ mon_pc' = "send"
                   /\ mon_counts' = counts
                   /\ UNCHANGED mon_i
              ELSE /\ mon_log' = Append(mon_log, entry("nomatch"))
                   /\ MonAdvance(counts)
    /\ UNCHANGED <<mon_filters, mon_u, mon_listings>>
    /\ UNCHANGED <<dbvars, fvars, inivars, delivered, failed_now>>
    /\ UNCHANGED nvars

\* mutant: check_new_listings does not catch the exception: the pass ends
MonCheckRaises_ends_pass ==
    /\ mon_pc = "check"
    /\ mon_pc' = "idle"
    /\ mon_filters' = <<>>
    /\ mon_u' = 0
    /\ mon_listings' = <<>>
    /\ mon_i' = 0
    /\ mon_counts' = ZeroCounts
    /\ mon_log' = <<>>
    /\ failed_now' = {}
    /\ mon_notify' = NoNotes
    /\ pass_log' = <<>>
    /\ UNCHANGED <<dbvars, fvars, inivars, delivered, retry_due>>
    /\ mon_trace' = NoTrace
    /\ UNCHANGED <<ini_notify, ini_log, streak>>

\* await db.is_seen(...) raises: the exception leaves _process_user and is
\* caught and logged by check_new_listings, which goes on to the next filter
MonCheckRaises ==
    /\ mon_pc = "check"
    /\ mon_pc' = "return"
    /\ pass_log' = [pass_log EXCEPT ![Len(pass_log)].raised = TRUE]
    /\ UNCHANGED <<mon_filters, mon_u, mon_listings, mon_i, mon_counts, mon_log>>
    /\ UNCHANGED <<dbvars, fvars, inivars, hvars>>
    /\ UNCHANGED <<mon_notify, ini_notify, ini_log, streak, mon_trace>>

\* await _send_listing(...) returns
MonSendOk ==
    /\ mon_pc = "send"
    /\ LET key == ListingKey(mon_listings[mon_i], mon_filters[mon_u].user_id) IN
          delivered' = [delivered EXCEPT ![key].mon = Saturate(@)]
    /\ mon_log' = [mon_log EXCEPT ![mon_i].outcome = "ok"]
    /\ mon_pc' = "mark"
    /\ UNCHANGED <<mon_filters, mon_u, mon_listings, mon_i, mon_counts>>
    /\ UNCHANGED <<dbvars, fvars, inivars, retry_due, failed_now>>
    /\ mon_trace' = [mon_trace EXCEPT
                        !.sends = Append(@, mon_listings[mon_i]),
                        !.notes = Append(@, SendNote(mon_filters[mon_u], mon_listings[mon_i]))]
    /\ UNCHANGED <<mon_notify, ini_notify, streak, ini_log, pass_log>>

\* mutant: the exception of _send_listing is not caught in _process_user: it
\* ends the user's cycle (check_new_listings catches it)
MonSendFail_propagates ==
    /\ mon_pc = "send"
    /\ LET key == ListingKey(mon_listings[mon_i], mon_filters[mon_u].user_id) IN
          failed_now' = failed_now \cup {key}
    /\ mon_log' = [mon_log EXCEPT ![mon_i].outcome = "fail"]
    /\ mon_pc' = "return"
    /\ UNCHANGED <<mon_filters, mon_u, mon_listings, mon_i, mon_counts>>
    /\ UNCHANGED <<dbvars, fvars, inivars, delivered, retry_due>>
    /\ mon_trace' = [mon_trace EXCEPT
                        !.sends = Append(@, mon_listings[mon_i]),
                        !.notes = Append(@, SendNote(mon_filters[mon_u], mon_listings[mon_i]))]
    /\ UNCHANGED <<mon_notify, ini_notify, streak, ini_log, pass_log>>

\* mutant: mark_seen is called in a finally clause, after a failed dispatch too
MonSendFail_marks_seen ==
    /\ mon_pc = "send"
    /\ LET key == ListingKey(mon_listings[mon_i], mon_filters[mon_u].user_id) IN
          failed_now' = failed_now \cup {key}
    /\ mon_log' = [mon_log EXCEPT ![mon_i].outcome = "fail"]
    /\ mon_pc' = "mark"
    /\ UNCHANGED <<mon_filters, mon_u, mon_listings, mon_i, mon_counts>>
    /\ UNCHANGED <<dbvars, fvars, inivars, delivered, retry_due>>
    /\ mon_trace' = [mon_trace EXCEPT
                        !.sends = Append(@, mon_listings[mon_i]),
                        !.notes = Append(@, SendNote(mon_filters[mon_u], mon_listings[mon_i]))]
    /\ UNCHANGED <<mon_notify, ini_notify, streak, ini_log, pass_log>>

\* await _send_listing(...) raises: except Exception: logger.exception(...)
MonSendFail ==
    /\ mon_pc = "send"
    /\ LET key == ListingKey(mon_listings[mon_i], mon_filters[mon_u].user_id) IN
          failed_now' = failed_now \cup {key}
    /\ mon_log' = [mon_log EXCEPT ![mon_i].outcome = "fail"]
    /\ MonAdvance(mon_counts)
    /\ UNCHANGED <<mon_filters, mon_u, mon_listings>>
    /\ UNCHANGED <<dbvars, fvars, inivars, delivered, retry_due>>
    /\ mon_trace' = [mon_trace EXCEPT
                        !.sends = Append(@, mon_listings[mon_i]),
                        !.notes = Append(@, SendNote(mon_filters[mon_u], mon_listings[mon_i]))]
    /\ UNCHANGED <<mon_notify, ini_notify, streak, ini_log, pass_log>>

\* mutant: the monitoring pass does not record the delivery
MonMark_skips_mark_seen ==
    /\ mon_pc = "mark"
    /\ LET f == mon_filters[mon_u]
           l == mon_listings[mon_i]
       IN  /\ UNCHANGED <<seen_listings, marked>>
           /\ MonAdvance(IF matches(f, l)
                         THEN [mon_counts EXCEPT !.sent_count = @ + 1]
                         ELSE [mon_counts EXCEPT !.approx_count = @ + 1])
    /\ UNCHANGED <<mon_filters, mon_u, mon_listings, mon_log>>
    /\ UNCHANGED <<now, db_op, fvars, inivars, hvars>>
    /\ UNCHANGED nvars

\* await db.mark_seen(...); sent_count += 1 / approx_count += 1
MonMark ==
    /\ mon_pc = "mark"
    /\ LET f == mon_filters[mon_u]
           l == mon_listings[mon_i]
       IN  /\ seen_listings' = mark_seen(seen_listings, l.source, l.listing_id,
                                         f.user_id, now)
           /\ marked' = marked \cup {ListingKey(l, f.user_id)}
           /\ MonAdvance(IF matches(f, l)
                         THEN [mon_counts EXCEPT !.sent_count = @ + 1]
                         ELSE [mon_counts EXCEPT !.approx_count = @ + 1])
    /\ UNCHANGED <<mon_filters, mon_u, mon_listings, mon_log>>
    /\ UNCHANGED <<now, db_op, fvars, inivars, hvars>>
    /\ UNCHANGED nvars

\* await db.mark_seen(...) raises after _send_listing returned: the except
\* clause around both logs it, the counter stays and the loop goes on
MonMarkRaises ==
    /\ mon_pc = "mark"
    /\ mon_log' = [mon_log EXCEPT ![mon_i].outcome = "mark_failed"]
    /\ MonAdvance(mon_counts)
    /\ UNCHANGED <<mon_filters, mon_u, mon_listings>>
    /\ UNCHANGED <<dbvars, fvars, inivars, hvars>>
    /\ UNCHANGED nvars

\* await _send_empty_listings_notification(...) returns
MonNotifyOk ==
    /\ mon_pc = "notify"
    /\ mon_pc' = "mark_empty"
    /\ UNCHANGED <<mon_filters, mon_u, mon_listings, mon_i, mon_counts, mon_log>>
    /\ UNCHANGED <<dbvars, fvars, inivars, hvars>>
    /\ mon_notify' = [mon_notify EXCEPT !.tried = @ + 1, !.sent = @ + 1]
    /\ UNCHANGED <<ini_notify, ini_log, streak, pass_log, mon_trace>>

\* variant: the mark is written although the notification raised
MonNotifyFail_marks ==
    /\ mon_pc = "notify"
    /\ mon_pc' = "mark_empty"
    /\ UNCHANGED <<mon_filters, mon_u, mon_listings, mon_i, mon_counts, mon_log>>
    /\ UNCHANGED <<dbvars, fvars, inivars, hvars>>
    /\ mon_notify' = [mon_notify EXCEPT !.tried = @ + 1]
    /\ UNCHANGED <<ini_notify, ini_log, streak, pass_log, mon_trace>>

\* await _send_empty_listings_notification(...) raises (caught, logged)
MonNotifyFail ==
    /\ mon_pc = "notify"
    /\ mon_pc' = "return"
    /\ UNCHANGED <<mon_filters, mon_u, mon_listings, mon_i, mon_counts, mon_log>>
    /\ UNCHANGED <<dbvars, fvars, inivars, hvars>>
    /\ mon_notify' = [mon_notify EXCEPT !.tried = @ + 1]
    /\ UNCHANGED <<ini_notify, ini_log, streak, pass_log, mon_trace>>

\* await db.mark_empty_notified(user_filter.user_id)
MonMarkEmpty ==
    /\ mon_pc = "mark_empty"
    /\ user_filters' = mark_empty_notified(user_filters, mon_filters[mon_u].user_id, now)
    /\ mon_pc' = "return"
    /\ UNCHANGED <<mon_filters, mon_u, mon_listings, mon_i, mon_counts, mon_log>>
    /\ UNCHANGED <<dbvars, inivars, hvars>>
    /\ mon_notify' = [mon_notify EXCEPT !.marked = @ + 1]
    /\ UNCHANGED <<ini_notify, ini_log, streak, pass_log, mon_trace>>

\* _process_user returns; check_new_listings goes on to the next filter
MonReturn ==
    /\ mon_pc = "return"
    /\ retry_due' = retry_due \cup failed_now
    /\ failed_now' = {}
    /\ mon_listings' = <<>>
    /\ mon_i' = 0
    /\ mon_counts' = ZeroCounts
    /\ mon_log' = <<>>
    /\ IF mon_u < Len(mon_filters)
       THEN mon_u' = mon_u + 1 /\ mon_pc' = "fetch" /\ UNCHANGED mon_filters
       ELSE mon_u' = 0 /\ mon_pc' = "idle" /\ mon_filters' = <<>>
    /\ UNCHANGED <<dbvars, fvars, inivars, delivered>>
    /\ mon_notify' = NoNotes
    /\ streak' = [streak EXCEPT ![mon_filters[mon_u].user_id] =
                      StreakAfter(@, \E i \in DOMAIN mon_listings :
                                        \/ matches(mon_filters[mon_u], mon_listings[i])
                                        \/ ~matches_approx(mon_filters[mon_u], mon_listings[i]).none,
                                  mon_notify.sent > 0)]
    /\ pass_log' = IF mon_u < Len(mon_filters) THEN pass_log ELSE <<>>
    /\ mon_trace' = NoTrace
    /\ UNCHANGED <<ini_notify, ini_log>>

\* ------------------------------------------------------------------------
\* monitor.py: send_initial_listings
\* ------------------------------------------------------------------------

NoFlags == [matched_but_seen |-> FALSE, sent |-> 0]

\* the value of ini_filter while no task runs
NoTask == StoredFilter(MkFilter(0, 0, 0, 0, 0, {}, {}, TRUE, 100, 0), 0, FALSE, IntNone)

\* after the send loop of send_initial_listings: log, notify, or nothing
IniLoopExit(flags) ==
    IF flags.sent > 0 THEN "return"
    ELSE IF ~flags.matched_but_seen THEN "notify"
    ELSE "return"

\* mutant: to_send = approx + strict
to_send_limited_approx_first(strict, approx, limit) ==
    LET all == approx \o strict
    IN  SubSeq(all, 1, Min(limit, Len(all)))

\* to_send = strict + approx; the loop runs over to_send[:limit]
to_send_limited(strict, approx, limit) ==
    LET all == strict \o approx
    IN  SubSeq(all, 1, Min(limit, Len(all)))

\* the position after the classification loop
IniClassified(strict, approx, flags) ==
    LET ts == to_send_limited(strict, approx, ini_filter.initial_listings_count) IN
    /\ ini_to_send' = ts
    /\ ini_pc' = IF ts = <<>> THEN IniLoopExit(flags) ELSE "send"

\* the position after entry ini_i of to_send has been dealt with
IniAdvance(flags) ==
    /\ ini_i' = ini_i + 1
    /\ ini_flags' = flags
    /\ ini_pc' = IF ini_i + 1 <= Len(ini_to_send) THEN "send" ELSE IniLoopExit(flags)

\* mutant: the guard lets a limit of zero through
IniEnter_no_guard ==
    /\ ini_pc = "call"
    /\ ini_pc' = IF ini_filter.initial_listings_count < 0 THEN "return" ELSE "fetch"
    /\ UNCHANGED <<ini_filter, ini_listings, ini_i, ini_strict, ini_approx,
                   ini_flags, ini_to_send>>
    /\ UNCHANGED <<dbvars, fvars, monvars, hvars, nvars>>

\* the task starts: limit = user_filter.initial_listings_count;
\* if limit <= 0: return 0
IniEnter ==
    /\ ini_pc = "call"
    /\ ini_pc' = IF ini_filter.initial_listings_count <= 0 THEN "return" ELSE "fetch"
    /\ UNCHANGED <<ini_filter, ini_listings, ini_i, ini_strict, ini_approx,
                   ini_flags, ini_to_send>>
    /\ UNCHANGED <<dbvars, fvars, monvars, hvars, nvars>>

\* listings = await _aggregate_listings(user_filter, pages=1)
IniFetch(r) ==
    /\ ini_pc = "fetch"
    /\ LET ls == _aggregate_listings(r[1], r[2], r[3]) IN
          /\ ini_listings' = ls
          /\ IF ls = <<>>
             THEN IniClassified(<<>>, <<>>, NoFlags)
             ELSE ini_pc' = "classify" /\ ini_to_send' = <<>>
    /\ ini_i' = 1
    /\ ini_strict' = <<>>
    /\ ini_approx' = <<>>
    /\ ini_flags' = NoFlags
    /\ UNCHANGED ini_filter
    /\ UNCHANGED <<dbvars, fvars, monvars, hvars>>
    /\ ini_notify' = NoNotes
    /\ ini_log' = <<>>
    /\ UNCHANGED <<mon_notify, streak, pass_log, mon_trace>>

\* one iteration of the classification loop: matches, matches_approx,
\* await db.is_seen, append to strict or approx
IniClassify ==
    /\ ini_pc = "classify"
    /\ LET f       == ini_filter
           l       == ini_listings[ini_i]
           strict  == matches(f, l)
           approx  == matches_approx(f, l)
           seen    == is_seen(seen_listings, l.source, l.listing_id, f.user_id)
           flags   == IF seen /\ (strict \/ ~approx.none)
                      THEN [ini_flags EXCEPT !.matched_but_seen = TRUE]
                      ELSE ini_flags
           strict2 == IF ~seen /\ strict THEN Append(ini_strict, l) ELSE ini_strict
           approx2 == IF ~seen /\ ~strict /\ ~approx.none
                      THEN Append(ini_approx, l) ELSE ini_approx
       IN  /\ ini_strict' = strict2
           /\ ini_approx' = approx2
           /\ ini_flags' = flags
           /\ IF ini_i < Len(ini_listings)
              THEN ini_i' = ini_i + 1 /\ ini_pc' = "classify" /\ UNCHANGED ini_to_send
              ELSE ini_i' = 1 /\ IniClassified(strict2, approx2, flags)
    /\ UNCHANGED <<ini_filter, ini_listings>>
    /\ UNCHANGED <<dbvars, fvars, monvars, hvars>>
    /\ UNCHANGED nvars

\* await _send_listing(...) returns
IniSendOk ==
    /\ ini_pc = "send"
    /\ LET key == ListingKey(ini_to_send[ini_i], ini_filter.user_id) IN
          delivered' = [delivered EXCEPT ![key].ini = Saturate(@)]
    /\ ini_pc' = "mark"
    /\ UNCHANGED <<ini_filter, ini_listings, ini_i, ini_strict, ini_approx,
                   ini_flags, ini_to_send>>
    /\ UNCHANGED <<dbvars, fvars, monvars, retry_due, failed_now>>
    /\ ini_log' = Append(ini_log, [listing |-> ini_to_send[ini_i], outcome |-> "ok",
                                   deviations |-> SendNote(ini_filter, ini_to_send[ini_i])])
    /\ UNCHANGED <<mon_notify, ini_notify, streak, pass_log, mon_trace>>

\* mutant: mark_seen is called in a finally clause, after a failed dispatch too
IniSendFail_marks_seen ==
    /\ ini_pc = "send"
    /\ ini_pc' = "mark"
    /\ UNCHANGED <<ini_filter, ini_listings, ini_i, ini_strict, ini_approx,
                   ini_flags, ini_to_send>>
    /\ UNCHANGED <<dbvars, fvars, monvars, hvars>>
    /\ ini_log' = Append(ini_log, [listing |-> ini_to_send[ini_i], outcome |-> "fail",
                                   deviations |-> SendNote(ini_filter, ini_to_send[ini_i])])
    /\ UNCHANGED <<mon_notify, ini_notify, streak, pass_log, mon_trace>>

\* await _send_listing(...) raises: except Exception: logger.exception(...)
IniSendFail ==
    /\ ini_pc = "send"
    /\ IniAdvance(ini_flags)
    /\ UNCHANGED <<ini_filter, ini_listings, ini_strict, ini_approx, ini_to_send>>
    /\ UNCHANGED <<dbvars, fvars, monvars, hvars>>
    /\ ini_log' = Append(ini_log, [listing |-> ini_to_send[ini_i], outcome |-> "fail",
                                   deviations |-> SendNote(ini_filter, ini_to_send[ini_i])])
    /\ UNCHANGED <<mon_notify, ini_notify, streak, pass_log, mon_trace>>

\* await db.mark_seen(...); sent += 1
IniMark ==
    /\ ini_pc = "mark"
    /\ LET l == ini_to_send[ini_i] IN
          /\ seen_listings' = mark_seen(seen_listings, l.source, l.listing_id,
                                        ini_filter.user_id, now)
          /\ marked' = marked \cup {ListingKey(l, ini_filter.user_id)}
    /\ IniAdvance([ini_flags EXCEPT !.sent = @ + 1])
    /\ UNCHANGED <<ini_filter, ini_listings, ini_strict, ini_approx, ini_to_send>>
    /\ UNCHANGED <<now, db_op, fvars, monvars, hvars>>
    /\ UNCHANGED nvars

\* await _send_empty_listings_notification(...) returns
IniNotifyOk ==
    /\ ini_pc = "notify"
    /\ ini_pc' = "mark_empty"
    /\ UNCHANGED <<ini_filter, ini_listings, ini_i, ini_strict, ini_approx,
                   ini_flags, ini_to_send>>
    /\ UNCHANGED <<dbvars, fvars, monvars, hvars>>
    /\ ini_notify' = [ini_notify EXCEPT !.tried = @ + 1, !.sent = @ + 1]
    /\ UNCHANGED <<mon_notify, streak, ini_log, pass_log, mon_trace>>

\* await _send_empty_listings_notification(...) raises (caught, logged)
IniNotifyFail ==
    /\ ini_pc = "notify"
    /\ ini_pc' = "return"
    /\ UNCHANGED <<ini_filter, ini_listings, ini_i, ini_strict, ini_approx,
                   ini_flags, ini_to_send>>
    /\ UNCHANGED <<dbvars, fvars, monvars, hvars>>
    /\ ini_notify' = [ini_notify EXCEPT !.tried = @ + 1]
    /\ UNCHANGED <<mon_notify, streak, ini_log, pass_log, mon_trace>>

\* await db.mark_empty_notified(user_filter.user_id)
IniMarkEmpty ==
    /\ ini_pc = "mark_empty"
    /\ user_filters' = mark_empty_notified(user_filters, ini_filter.user_id, now)
    /\ ini_pc' = "return"
    /\ UNCHANGED <<ini_filter, ini_listings, ini_i, ini_strict, ini_approx,
                   ini_flags, ini_to_send>>
    /\ UNCHANGED <<dbvars, monvars, hvars>>
    /\ ini_notify' = [ini_notify EXCEPT !.marked = @ + 1]
    /\ UNCHANGED <<mon_notify, streak, ini_log, pass_log, mon_trace>>

\* return sent: the task ends
IniReturn ==
    /\ ini_pc = "return"
    /\ ini_pc' = "idle"
    /\ ini_listings' = <<>>
    /\ ini_i' = 0
    /\ ini_strict' = <<>>
    /\ ini_approx' = <<>>
    /\ ini_flags' = NoFlags
    /\ ini_to_send' = <<>>
    /\ ini_filter' = NoTask
    /\ UNCHANGED <<dbvars, fvars, monvars, hvars>>
    /\ ini_notify' = NoNotes
    /\ ini_log' = <<>>
    /\ UNCHANGED <<mon_notify, streak, pass_log, mon_trace>>

\* ------------------------------------------------------------------------
\* handlers.py: on_confirm, /pause, /resume
\* ------------------------------------------------------------------------

\* UPDATE user_filters SET is_active = ? WHERE user_id = ?
set_active(table, user_id, active) ==
    [u \in DOMAIN table |->
        IF u = user_id THEN [table[u] EXCEPT !.is_active = active] ELSE table[u]]

\* on_confirm: the wizard's filter is stored with is_active = True; with
\* initial_listings_count > 0 the initial batch is started as a task
on_confirm(u, n) ==
    /\ n > 0 => ini_pc = "idle"
    /\ LET f == StoredFilter(WizardFilter(u), n, TRUE, IntNone) IN
          /\ user_filters' = upsert_filter(user_filters, f)
          /\ IF n > 0
             THEN ini_pc' = "call" /\ ini_filter' = f
             ELSE UNCHANGED <<ini_pc, ini_filter>>
    /\ UNCHANGED <<ini_listings, ini_i, ini_strict, ini_approx, ini_flags, ini_to_send>>
    /\ UNCHANGED <<dbvars, monvars, hvars>>
    /\ streak' = [streak EXCEPT ![u] = "none"]
    /\ UNCHANGED <<mon_notify, ini_notify, ini_log, pass_log, mon_trace>>

\* _apply_migrations on a database that has the current schema: every ALTER
\* TABLE fails and is passed over; the UPDATE sets commission_max_percent to
\* 0 in the rows whose no_commission is 1, and upsert_filter writes
\* no_commission = 1 exactly with commission_max_percent >= 100
_apply_migrations(table) ==
    [u \in DOMAIN table |->
        [table[u] EXCEPT !.commission_max_percent = IF @ >= 100 THEN 0 ELSE @]]

\* Database.close() at shutdown and Database.connect() of the next process:
\* CREATE TABLE IF NOT EXISTS keeps both tables, then the migrations run.
\* No pass and no batch task is under way across the restart.
DbReconnect ==
    /\ mon_pc = "idle"
    /\ ini_pc = "idle"
    /\ user_filters' = _apply_migrations(user_filters)
    /\ db_op' = [op |-> "connect", key |-> <<"", 0, 0>>, result |-> FALSE,
                 before |-> seen_listings]
    /\ UNCHANGED <<seen_listings, now, marked>>
    /\ UNCHANGED <<monvars, inivars, hvars, nvars>>

\* a direct call of send_initial_listings(bot, db, user_filter, config) with
\* a filter whose initial_listings_count is n and whose empty_notified_at is
\* notified_at
CallInitial(u, n, notified_at) ==
    /\ ini_pc = "idle"
    /\ ini_pc' = "call"
    /\ ini_filter' = StoredFilter(WizardFilter(u), n, TRUE, notified_at)
    /\ UNCHANGED <<ini_listings, ini_i, ini_strict, ini_approx, ini_flags, ini_to_send>>
    /\ UNCHANGED <<dbvars, fvars, monvars, hvars, nvars>>

\* the values an edit of the tolerance field can store
EditTolerances == {0, 10}

\* _save_edit_filter_and_show with edit_field = "tolerance": base = await
\* db.get_filter(user_id); without a stored filter nothing happens; otherwise
\* the base with the new tolerance_percent is stored by upsert_filter
edit_tolerance(u, t) ==
    /\ u \in DOMAIN user_filters
    /\ LET base    == user_filters[u]
           updated == [base EXCEPT !.tolerance_percent = t, !.empty_notified_at = IntNone]
       IN  user_filters' = upsert_filter(user_filters, updated)
    /\ UNCHANGED <<ini_pc, ini_filter, ini_listings, ini_i, ini_strict, ini_approx,
                   ini_flags, ini_to_send>>
    /\ UNCHANGED <<dbvars, monvars, hvars>>
    /\ streak' = [streak EXCEPT ![u] = "none"]
    /\ UNCHANGED <<mon_notify, ini_notify, ini_log, pass_log, mon_trace>>

\* cmd_pause: await db.set_active(user_id, active=False)
cmd_pause(u) ==
    /\ user_filters' = set_active(user_filters, u, FALSE)
    /\ UNCHANGED <<ini_pc, ini_filter, ini_listings, ini_i, ini_strict, ini_approx,
                   ini_flags, ini_to_send>>
    /\ UNCHANGED <<dbvars, monvars, hvars>>
    /\ UNCHANGED nvars

\* cmd_resume: without a stored filter nothing changes
cmd_resume(u) ==
    /\ user_filters' = IF u \in DOMAIN user_filters
                       THEN set_active(user_filters, u, TRUE)
                       ELSE user_filters
    /\ UNCHANGED <<ini_pc, ini_filter, ini_listings, ini_i, ini_strict, ini_approx,
                   ini_flags, ini_to_send>>
    /\ UNCHANGED <<dbvars, monvars, hvars>>
    /\ UNCHANGED nvars

\* ------------------------------------------------------------------------
\* Specifications
\* ------------------------------------------------------------------------

\* no filters stored, the scheduler and the initial-batch task at rest
InitSys ==
    /\ user_filters = [u \in {} |-> 0]
    /\ mon_pc = "idle"
    /\ mon_filters = <<>>
    /\ mon_u = 0
    /\ mon_listings = <<>>
    /\ mon_i = 0
    /\ mon_counts = ZeroCounts
    /\ mon_log = <<>>
    /\ ini_pc = "idle"
    /\ ini_filter = NoTask
    /\ ini_listings = <<>>
    /\ ini_i = 0
    /\ ini_strict = <<>>
    /\ ini_approx = <<>>
    /\ ini_flags = NoFlags
    /\ ini_to_send = <<>>
    /\ delivered = [k \in Triples |-> [mon |-> 0, ini |-> 0]]
    /\ retry_due = {}
    /\ failed_now = {}
    /\ mon_notify = NoNotes
    /\ ini_notify = NoNotes
    /\ streak = [u \in Users |-> "none"]
    /\ ini_log = <<>>
    /\ pass_log = <<>>
    /\ mon_trace = NoTrace

\* ------------------------------------------------------------------------
\* handlers.py: the search wizard and the single-field edit
\* ------------------------------------------------------------------------

\* an empty dict
NoData == [k \in {} |-> 0]

\* the elements of a list (x in list)
Range(list) == {list[i] : i \in 1..Len(list)}

\* data.get(key, default)
DataGet(data, key, default) == IF key \in DOMAIN data THEN data[key] ELSE default

\* a click on a multi-select button
Toggle(selected, x) == IF x \in selected THEN selected \ {x} ELSE selected \cup {x}

\* what the keyboards offer and what the user types
CityChoices == {1}
RoomChoices == {1}
PricePresets == { <<0, 100>> }
PriceMinTyped == {120}
PriceMaxTyped == {100, 120}
AreaChoices == {0}
KitchenChoices == {0}
RenovationChoices == {"euro"}
PetsChoices == {TRUE}
CommissionPresets == {100}
CommissionTyped == {100}
TolerancePresets == {10}
ToleranceTyped == {10}
InitialPresets == {0}
InitialTyped == {1}

\* the callback handler of each wizard state
StepHandler ==
    [ city |-> "on_city", rooms |-> "on_rooms", price |-> "on_price",
      price_custom_min |-> "on_price_custom_min",
      price_custom_max |-> "on_price_custom_max",
      area |-> "on_area", kitchen |-> "on_kitchen", renovation |-> "on_renovation",
      pets |-> "on_pets", commission |-> "on_commission",
      commission_text |-> "on_commission_text", tolerance |-> "on_tolerance",
      tolerance_text |-> "on_tolerance_text",
      initial_listings |-> "on_initial_listings",
      initial_listings_text |-> "on_initial_listings_text", confirm |-> "on_confirm" ]

\* the states on_back is registered for, with the state it goes back to
BackTo ==
    [ rooms |-> "city", price |-> "rooms", area |-> "price", kitchen |-> "area",
      renovation |-> "kitchen", pets |-> "renovation", commission |-> "pets",
      tolerance |-> "commission", initial_listings |-> "tolerance",
      confirm |-> "initial_listings" ]

\* _EDIT_FILTER_FIELDS with the state on_edit_filter_select enters
EditState ==
    [ city |-> "city", rooms |-> "rooms", price |-> "price", area |-> "area",
      kitchen |-> "kitchen", renovation |-> "renovation", pets |-> "pets",
      commission |-> "commission", tolerance |-> "tolerance",
      initial_listings |-> "initial_listings" ]

\* the keys each wizard step writes
WizardKeys ==
    { "cities", "rooms", "price_min", "price_max", "area_min", "kitchen_area_min",
      "renovation_types", "pets_allowed", "commission_max_percent",
      "tolerance_percent", "initial_listings_count" }

\* no price was typed in the update handled last
NoInput == [typed |-> FALSE, value |-> 0]

\* what a handler leaves alone besides the wizard and the filter table;
\* input is what price_input keeps of the update
BotFrameIn(input) ==
    /\ price_input' = input
    /\ UNCHANGED <<uf, listing, m_pc, matches_strict, matches_approx_r, prev_tol,
                   prev_approx, agg_in, agg_out, parse_call, last_request_ts, rate_call,
                   edit_call, dest_call>>
    /\ UNCHANGED <<dbvars, monvars, hvars>>
    /\ UNCHANGED <<mon_notify, ini_notify, ini_log, pass_log, mon_trace>>

BotFrame == BotFrameIn(NoInput)

\* a handler that ends without a write to the database
ReplyIn(state2, data2, input) ==
    /\ fsm_state' = state2
    /\ fsm_data' = data2
    /\ UNCHANGED <<user_filters, streak, inivars>>
    /\ BotFrameIn(input)

Reply(state2, data2) == ReplyIn(state2, data2, NoInput)

\* _user_filter_to_fsm_data(f)
_user_filter_to_fsm_data(f) ==
    [ cities |-> f.cities, rooms |-> f.rooms, price_min |-> f.price_min, price_max |-> f.price_max,
      area_min |-> f.area_min, kitchen_area_min |-> f.kitchen_area_min,
      renovation_types |-> f.renovation_types, pets_allowed |-> f.pets_allowed,
      commission_max_percent |-> f.commission_max_percent,
      tolerance_percent |-> f.tolerance_percent,
      initial_listings_count |-> f.initial_listings_count ]

\* variant: every key of the data is taken, whatever field is edited
_fsm_data_to_user_filter_takes_all(data, base, user_id, edit_field) ==
    [ k \in DOMAIN base |->
        IF k = "user_id" THEN user_id
        ELSE IF k = "empty_notified_at" THEN IntNone
        ELSE DataGet(data, k, base[k]) ]

\* _fsm_data_to_user_filter(data, base, user_id, edit_field): the base with
\* the attributes of the edited field taken from data
_fsm_data_to_user_filter(data, base, user_id, edit_field) ==
    [ base EXCEPT
        !.user_id = user_id,
        !.cities = IF edit_field = "city" THEN DataGet(data, "cities", @) ELSE @,
        !.rooms = IF edit_field = "rooms" THEN DataGet(data, "rooms", @) ELSE @,
        !.price_min = IF edit_field \in {"price", "price_custom"}
                      THEN DataGet(data, "price_min", @) ELSE @,
        !.price_max = IF edit_field \in {"price", "price_custom"}
                      THEN DataGet(data, "price_max", @) ELSE @,
        !.area_min = IF edit_field = "area" THEN DataGet(data, "area_min", @) ELSE @,
        !.kitchen_area_min = IF edit_field = "kitchen"
                             THEN DataGet(data, "kitchen_area_min", @) ELSE @,
        !.renovation_types = IF edit_field = "renovation"
                             THEN DataGet(data, "renovation_types", @) ELSE @,
        !.pets_allowed = IF edit_field = "pets" THEN DataGet(data, "pets_allowed", @) ELSE @,
        !.commission_max_percent = IF edit_field = "commission"
                                   THEN DataGet(data, "commission_max_percent", @) ELSE @,
        !.tolerance_percent = IF edit_field = "tolerance"
                              THEN DataGet(data, "tolerance_percent", @) ELSE @,
        !.initial_listings_count = IF edit_field = "initial_listings"
                                   THEN DataGet(data, "initial_listings_count", @) ELSE @,
        !.empty_notified_at = IntNone ]

\* _save_edit_filter_and_show: without a stored filter it returns at once;
\* otherwise the updated filter is stored and the wizard is cleared
_save_edit_filter_and_show_in(u, data2, input) ==
    IF u \notin DOMAIN user_filters
    THEN ReplyIn(fsm_state, data2, input)
    ELSE /\ user_filters' = upsert_filter(user_filters,
                 _fsm_data_to_user_filter(data2, user_filters[u], u, data2["edit_filter"]))
         /\ fsm_state' = "none"
         /\ fsm_data' = NoData
         /\ streak' = [streak EXCEPT ![u] = "none"]
         /\ UNCHANGED inivars
         /\ BotFrameIn(input)

_save_edit_filter_and_show(u, data2) == _save_edit_filter_and_show_in(u, data2, NoInput)

\* the end of a step whose input was accepted and written to data2: in the
\* edit mode the filter is saved, otherwise the wizard moves on
StepDoneIn(u, data2, next_state, input) ==
    IF "edit_filter" \in DOMAIN data2
    THEN _save_edit_filter_and_show_in(u, data2, input)
    ELSE ReplyIn(next_state, data2, input)

StepDone(u, data2, next_state) == StepDoneIn(u, data2, next_state, NoInput)

\* cmd_search and nav:search: _start_search_wizard
cmd_search ==
    Reply("city",
          [cities |-> <<>>, rooms |-> {}, renovation_types |-> {}])

\* a text message in the city step: the search results are shown
on_city_text ==
    /\ fsm_state = "city"
    /\ Reply(fsm_state, fsm_data)

\* sorted(list)
RECURSIVE sorted(_)
sorted(list) ==
    IF list = <<>> THEN <<>>
    ELSE LET m == CHOOSE x \in Range(list) : \A y \in Range(list) : x <= y
             i == CHOOSE j \in 1..Len(list) : list[j] = m
         IN  <<m>> \o sorted(SubSeq(list, 1, i - 1) \o SubSeq(list, i + 1, Len(list)))

\* MAX_CITIES_SELECT (keyboards.py)
MAX_CITIES_SELECT == 10

\* on_city with city:<id>: a selected city is removed; another one is added,
\* in sorted order, unless MAX_CITIES_SELECT cities are selected already
on_city_toggle(c) ==
    /\ fsm_state = "city"
    /\ LET cities == DataGet(fsm_data, "cities", <<>>) IN
          IF c \in Range(cities)
          THEN Reply(fsm_state, [cities |-> SelectSeq(cities, LAMBDA x : x # c)] @@ fsm_data)
          ELSE IF Len(cities) >= MAX_CITIES_SELECT
               THEN Reply(fsm_state, fsm_data)
               ELSE Reply(fsm_state, [cities |-> sorted(cities \o <<c>>)] @@ fsm_data)

\* variant: city:done is taken without a look at the selection
on_city_done_unchecked(u) ==
    /\ fsm_state = "city"
    /\ StepDone(u, fsm_data, "rooms")

\* on_city with city:done: refused while no city is selected
on_city_done(u) ==
    /\ fsm_state = "city"
    /\ IF DataGet(fsm_data, "cities", <<>>) = <<>>
       THEN Reply(fsm_state, fsm_data)
       ELSE StepDone(u, fsm_data, "rooms")

\* on_rooms with rooms:<n>
on_rooms_toggle(r) ==
    /\ fsm_state = "rooms"
    /\ Reply(fsm_state,
             [rooms |-> Toggle(DataGet(fsm_data, "rooms", {}), r)] @@ fsm_data)

\* on_rooms with rooms:done
on_rooms_done(u) ==
    /\ fsm_state = "rooms"
    /\ StepDone(u, fsm_data, "price")

\* on_price with price:<min>:<max>; a range with max below min is refused
on_price(u, range) ==
    /\ fsm_state = "price"
    /\ IF range[2] # 0 /\ range[1] > range[2]
       THEN Reply(fsm_state, fsm_data)
       ELSE StepDone(u, [price_min |-> range[1], price_max |-> range[2]] @@ fsm_data, "area")

\* on_price with price:custom
on_price_custom ==
    /\ fsm_state = "price"
    /\ Reply("price_custom_min", fsm_data)

\* variant: in the edit mode the minimum is saved as soon as it is typed
on_price_custom_min_saves(u, v) ==
    /\ fsm_state = "price_custom_min"
    /\ StepDone(u, [price_min |-> v] @@ fsm_data, "price_custom_max")

\* on_price_custom_min: the minimum is kept in the data, the maximum is asked
on_price_custom_min(u, v) ==
    /\ fsm_state = "price_custom_min"
    /\ Reply("price_custom_max", [price_min |-> v] @@ fsm_data)

\* variant: the typed maximum is taken as it is
on_price_custom_max_unchecked(u, v) ==
    /\ fsm_state = "price_custom_max"
    /\ StepDoneIn(u, [price_max |-> v] @@ fsm_data, "area", [typed |-> TRUE, value |-> v])

\* on_price_custom_max: a maximum below the minimum is refused
on_price_custom_max(u, v) ==
    /\ fsm_state = "price_custom_max"
    /\ IF v # 0 /\ DataGet(fsm_data, "price_min", 0) > v
       THEN ReplyIn(fsm_state, fsm_data, [typed |-> TRUE, value |-> v])
       ELSE StepDoneIn(u, [price_max |-> v] @@ fsm_data, "area",
                       [typed |-> TRUE, value |-> v])

on_area(u, v) ==
    /\ fsm_state = "area"
    /\ StepDone(u, [area_min |-> v] @@ fsm_data, "kitchen")

on_kitchen(u, v) ==
    /\ fsm_state = "kitchen"
    /\ StepDone(u, [kitchen_area_min |-> v] @@ fsm_data, "renovation")

\* on_renovation with renovation:any
on_renovation_any(u) ==
    /\ fsm_state = "renovation"
    /\ StepDone(u, [renovation_types |-> {}] @@ fsm_data, "pets")

\* on_renovation with renovation:done
on_renovation_done(u) ==
    /\ fsm_state = "renovation"
    /\ StepDone(u, fsm_data, "pets")

\* on_renovation with renovation:<type>
on_renovation_toggle(t) ==
    /\ fsm_state = "renovation"
    /\ Reply(fsm_state,
             [renovation_types |-> Toggle(DataGet(fsm_data, "renovation_types", {}), t)]
                 @@ fsm_data)

on_pets(u, v) ==
    /\ fsm_state = "pets"
    /\ StepDone(u, [pets_allowed |-> v] @@ fsm_data, "commission")

on_commission(u, v) ==
    /\ fsm_state = "commission"
    /\ StepDone(u, [commission_max_percent |-> v] @@ fsm_data, "tolerance")

\* on_commission with commission:custom
on_commission_custom ==
    /\ fsm_state = "commission"
    /\ Reply("commission_text", fsm_data)

on_commission_text(u, v) ==
    /\ fsm_state = "commission_text"
    /\ StepDone(u, [commission_max_percent |-> v] @@ fsm_data, "tolerance")

on_tolerance(u, v) ==
    /\ fsm_state = "tolerance"
    /\ StepDone(u, [tolerance_percent |-> v] @@ fsm_data, "initial_listings")

\* on_tolerance with tolerance:custom
on_tolerance_custom ==
    /\ fsm_state = "tolerance"
    /\ Reply("tolerance_text", fsm_data)

on_tolerance_text(u, v) ==
    /\ fsm_state = "tolerance_text"
    /\ StepDone(u, [tolerance_percent |-> v] @@ fsm_data, "initial_listings")

on_initial_listings(u, v) ==
    /\ fsm_state = "initial_listings"
    /\ StepDone(u, [initial_listings_count |-> v] @@ fsm_data, "confirm")

\* on_initial_listings with initial_listings:custom
on_initial_listings_custom ==
    /\ fsm_state = "initial_listings"
    /\ Reply("initial_listings_text", fsm_data)

on_initial_listings_text(u, v) ==
    /\ fsm_state = "initial_listings_text"
    /\ StepDone(u, [initial_listings_count |-> v] @@ fsm_data, "confirm")

\* on_back: in the edit mode the wizard is cleared, otherwise it returns to
\* the step before
on_back(u) ==
    /\ fsm_state \in DOMAIN BackTo
    /\ IF "edit_filter" \in DOMAIN fsm_data
       THEN Reply("none", NoData)
       ELSE Reply(BackTo[fsm_state], fsm_data)

\* the UserFilter on_confirm builds from the wizard data
confirmed_filter(data, u) ==
    [ StoredFilter(
        MkFilter(u, DataGet(data, "price_min", 0), DataGet(data, "price_max", 0),
                 DataGet(data, "area_min", 0), DataGet(data, "kitchen_area_min", 0),
                 DataGet(data, "rooms", {}), DataGet(data, "renovation_types", {}),
                 DataGet(data, "pets_allowed", TRUE),
                 DataGet(data, "commission_max_percent", 100),
                 DataGet(data, "tolerance_percent", 0)),
        DataGet(data, "initial_listings_count", 0), TRUE, IntNone)
      EXCEPT !.cities = DataGet(data, "cities", <<1>>) ]

\* on_confirm with confirm:start: the filter is stored, the wizard cleared
\* and, with a positive count, the initial batch started as a task
on_confirm_start(u) ==
    /\ fsm_state = "confirm"
    /\ LET f == confirmed_filter(fsm_data, u) IN
          /\ f.initial_listings_count > 0 => ini_pc = "idle"
          /\ user_filters' = upsert_filter(user_filters, f)
          /\ IF f.initial_listings_count > 0
             THEN ini_pc' = "call" /\ ini_filter' = f
             ELSE UNCHANGED <<ini_pc, ini_filter>>
    /\ fsm_state' = "none"
    /\ fsm_data' = NoData
    /\ streak' = [streak EXCEPT ![u] = "none"]
    /\ UNCHANGED <<ini_listings, ini_i, ini_strict, ini_approx, ini_flags, ini_to_send>>
    /\ BotFrame

\* on_confirm with confirm:restart: the wizard starts over
on_confirm_restart ==
    /\ fsm_state = "confirm"
    /\ Reply("city",
             [cities |-> <<>>, rooms |-> {}, renovation_types |-> {}])

\* on_edit_filter_select with edit_filter:<field>: without a stored filter
\* it is refused; otherwise the stored filter is loaded into the data with
\* the edited field's name, and the field's step is shown (the callback
\* carries the message of its button)
on_edit_filter_select(u, field) ==
    IF u \notin DOMAIN user_filters
    THEN Reply(fsm_state, fsm_data)
    ELSE Reply(EditState[field],
               ([edit_filter |-> field] @@ _user_filter_to_fsm_data(user_filters[u]))
                   @@ fsm_data)

\* on_edit_filter_select with a callback that carries no message: the data
\* is loaded, the wizard state stays
on_edit_filter_select_no_message(u, field) ==
    IF u \notin DOMAIN user_filters
    THEN Reply(fsm_state, fsm_data)
    ELSE Reply(fsm_state,
               ([edit_filter |-> field] @@ _user_filter_to_fsm_data(user_filters[u]))
                   @@ fsm_data)

\* on_edit_filter_back: the wizard is cleared, nothing is saved
on_edit_filter_back ==
    Reply("none", NoData)

\* a payload or a text the handler of the current state refuses
bad_input ==
    /\ fsm_state \in DOMAIN StepHandler
    /\ Reply(fsm_state, fsm_data)

\* an update that _is_rate_limited refuses: the handler returns at once
rate_limited ==
    /\ UNCHANGED <<fsm_state, fsm_data, user_filters, streak, inivars>>
    /\ BotFrame

\* ------------------------------------------------------------------------
\* handlers.py: _is_rate_limited
\* ------------------------------------------------------------------------

\* RATE_LIMIT_SECONDS = 0.7; time is counted in tenths of a second
RATE_LIMIT_SECONDS == 7

\* the latest time a call is made at
MaxClock == 10

\* variant: a refused call also stores its time
_is_rate_limited_restarts(table, user_id, current) ==
    [ result |-> user_id \in DOMAIN table /\ current - table[user_id] < RATE_LIMIT_SECONDS,
      table |-> (user_id :> current) @@ table ]

\* _is_rate_limited(user_id, now=current) on the dict table: the result and
\* the dict after the call
_is_rate_limited(table, user_id, current) ==
    IF user_id \in DOMAIN table /\ current - table[user_id] < RATE_LIMIT_SECONDS
    THEN [result |-> TRUE, table |-> table]
    ELSE [result |-> FALSE, table |-> (user_id :> current) @@ table]

\* before the first call of _fsm_data_to_user_filter
NoEditCall ==
    [called |-> FALSE, data |-> NoData, base |-> NoData, user_id |-> 0, edit_field |-> "",
     result |-> NoData]

\* two UserFilter objects that differ in every attribute
FrameFilters ==
    { [ StoredFilter(MkFilter(1, 50, 150, 40, 8, {2, 3}, {"euro"}, TRUE, 30, 10),
                     5, TRUE, IntSome(1)) EXCEPT !.cities = <<2>> ],
      [ StoredFilter(MkFilter(1, 60, 0, 0, 0, {}, {}, FALSE, 100, 0),
                     0, FALSE, IntNone) EXCEPT !.cities = <<1, 3>> ] }

\* the fields an edit can name: _EDIT_FILTER_FIELDS and "price_custom"
FrameFields == DOMAIN EditState \cup {"price_custom"}

\* the dicts that hold some keys of _user_filter_to_fsm_data(f), with or
\* without the edit_filter key
FrameData(f, field) ==
    { [k \in keys |-> IF k = "edit_filter" THEN field ELSE _user_filter_to_fsm_data(f)[k]] :
        keys \in SUBSET (WizardKeys \cup {"edit_filter"}) }

\* the calls of _fsm_data_to_user_filter that are tried
InitFrame ==
    \E base \in FrameFilters, other \in FrameFilters, field \in FrameFields :
        \E data \in FrameData(other, field) :
            /\ other # base
            /\ edit_call = [called |-> FALSE, data |-> data, base |-> base,
                            user_id |-> base.user_id, edit_field |-> field,
                            result |-> NoData]

\* the call of _fsm_data_to_user_filter with the arguments of edit_call
EditFrame ==
    /\ ~edit_call.called
    /\ edit_call' =
          [edit_call EXCEPT
              !.called = TRUE,
              !.result = _fsm_data_to_user_filter(edit_call.data, edit_call.base,
                                                  edit_call.user_id, edit_call.edit_field)]
    /\ UNCHANGED <<uf, listing, m_pc, matches_strict, matches_approx_r, prev_tol,
                   prev_approx, agg_in, agg_out, parse_call, fsm_state, fsm_data,
                   last_request_ts, rate_call, dest_call, price_input>>

\* ------------------------------------------------------------------------
\* monitor.py: _resolve_destination
\* ------------------------------------------------------------------------

\* Optional[tuple[int, int]]: what get_group_topic_config returns
TopicNone == [none |-> TRUE, chat_id |-> 0, message_thread_id |-> 0]
TopicSome(chat_id, thread_id) ==
    [none |-> FALSE, chat_id |-> chat_id, message_thread_id |-> thread_id]

\* (chat_id, message_thread_id) with an Optional[int] thread
Destination(chat_id, thread_id) == [chat_id |-> chat_id, message_thread_id |-> thread_id]

\* variant: the group of the configuration comes before the stored topic
_resolve_destination_config_first(user_id, config, topic_config) ==
    IF user_id # config.admin_user_id
    THEN Destination(user_id, IntNone)
    ELSE IF ~config.group_chat_id.none /\ ~config.group_topic_id.none
    THEN Destination(config.group_chat_id.val, IntSome(config.group_topic_id.val))
    ELSE IF ~topic_config.none
    THEN Destination(topic_config.chat_id, IntSome(topic_config.message_thread_id))
    ELSE Destination(user_id, IntNone)

\* _resolve_destination for user_filter.user_id, the configuration and what
\* db.get_group_topic_config() returns
_resolve_destination(user_id, config, topic_config) ==
    IF user_id # config.admin_user_id
    THEN Destination(user_id, IntNone)
    ELSE IF ~topic_config.none
    THEN Destination(topic_config.chat_id, IntSome(topic_config.message_thread_id))
    ELSE IF ~config.group_chat_id.none /\ ~config.group_topic_id.none
    THEN Destination(config.group_chat_id.val, IntSome(config.group_topic_id.val))
    ELSE Destination(user_id, IntNone)

\* the users, the configurations and the stored topics that are tried
DestUsers == {1, 2, 42}
DestConfigs ==
    [ admin_user_id : {1, 42},
      group_chat_id : {IntNone, IntSome(-200)},
      group_topic_id : {IntNone, IntSome(0), IntSome(7)} ]
DestTopics == {TopicNone, TopicSome(-100, 555), TopicSome(-200, 0)}

\* before the first call of _resolve_destination
NoDestCall ==
    [called |-> FALSE, user_id |-> 0,
     config |-> [admin_user_id |-> 0, group_chat_id |-> IntNone, group_topic_id |-> IntNone],
     topic_config |-> TopicNone, result |-> Destination(0, IntNone)]

\* the calls of _resolve_destination that are tried
InitDest ==
    \E u \in DestUsers, config \in DestConfigs, topic \in DestTopics :
        dest_call = [NoDestCall EXCEPT !.user_id = u, !.config = config,
                                       !.topic_config = topic]

\* the call of _resolve_destination with the arguments of dest_call
Resolve ==
    /\ ~dest_call.called
    /\ dest_call' =
          [dest_call EXCEPT
              !.called = TRUE,
              !.result = _resolve_destination(dest_call.user_id, dest_call.config,
                                              dest_call.topic_config)]
    /\ UNCHANGED <<uf, listing, m_pc, matches_strict, matches_approx_r, prev_tol,
                   prev_approx, agg_in, agg_out, parse_call, fsm_state, fsm_data,
                   last_request_ts, rate_call, edit_call, price_input>>

\* before the first call
NoRateCall ==
    [called |-> FALSE, user |-> 0, at |-> 0, result |-> FALSE, before |-> NoData,
     accepted |-> NoData, refused |-> NoData]

\* a call of _is_rate_limited(user_id, now=current); rate_call keeps the dict
\* before the call and, per user, the time of the last call that returned
\* False and of the last call that returned True
RateCall(user_id, current) ==
    /\ LET r == _is_rate_limited(last_request_ts, user_id, current) IN
          /\ last_request_ts' = r.table
          /\ rate_call' =
                 [called |-> TRUE, user |-> user_id, at |-> current, result |-> r.result,
                  before |-> last_request_ts,
                  accepted |-> IF r.result THEN rate_call.accepted
                               ELSE (user_id :> current) @@ rate_call.accepted,
                  refused |-> IF r.result THEN (user_id :> current) @@ rate_call.refused
                              ELSE rate_call.refused]
    /\ UNCHANGED <<uf, listing, m_pc, matches_strict, matches_approx_r, prev_tol,
                   prev_approx, agg_in, agg_out, parse_call, fsm_state, fsm_data,
                   edit_call, dest_call, price_input>>

\* no wizard is open and no request was counted
InitBot ==
    /\ fsm_state = "none"
    /\ fsm_data = NoData
    /\ last_request_ts = NoData
    /\ rate_call = NoRateCall
    /\ price_input = NoInput

InitDb ==
    /\ seen_listings = {}
    /\ now = 0
    /\ db_op = NoOp
    /\ marked = {}

InitModels ==
    /\ uf = MkFilter(1, 0, 0, 0, 0, {}, {}, TRUE, 100, 0)
    /\ listing = MkListing("cian", 1, <<>>, <<>>, 0, 0, 0, 0, "", <<>>)
    /\ m_pc = "off"
    /\ matches_strict = FALSE
    /\ matches_approx_r = ListNone
    /\ prev_tol = -1
    /\ prev_approx = ListNone
    /\ agg_in = NoSearch
    /\ agg_out = <<>>
    /\ parse_call = NoParse

InitHarnessOff ==
    /\ InitModels
    /\ InitBot
    /\ edit_call = NoEditCall
    /\ dest_call = NoDestCall

InitMatch ==
    /\ \E in \in Inputs : uf = in[1] /\ listing = in[2]
    /\ m_pc = "call"
    /\ matches_strict = FALSE
    /\ matches_approx_r = ListNone
    /\ prev_tol = -1
    /\ prev_approx = ListNone
    /\ agg_in = NoSearch
    /\ agg_out = <<>>
    /\ parse_call = NoParse
    /\ InitBot
    /\ edit_call = NoEditCall
    /\ dest_call = NoDestCall
    /\ InitDb
    /\ InitSys

NextMatch ==
    \/ Evaluate /\ UNCHANGED <<dbvars, sysvars>>
    \/ Retune /\ UNCHANGED <<dbvars, sysvars>>

\* the matching engine on every input of the harness
SpecMatch == InitMatch /\ [][NextMatch]_vars

InitStorage == InitHarnessOff /\ InitDb /\ InitSys

NextDb ==
    \/ \E k \in DbKeys : DbIsSeen(k[1], k[2], k[3]) /\ UNCHANGED <<mvars, sysvars>>
    \/ \E k \in DbKeys : DbMarkSeen(k[1], k[2], k[3]) /\ UNCHANGED <<mvars, sysvars>>
    \/ Tick /\ UNCHANGED <<mvars, sysvars>>

\* the storage layer under arbitrary calls of is_seen and mark_seen
SpecDb == InitStorage /\ [][NextDb]_vars

Init == InitHarnessOff /\ InitDb /\ InitSys

\* one user's commands and the monitoring pass: the user asks for no initial
\* batch
NextMonitor ==
    \/ on_confirm(1, 0) /\ UNCHANGED mvars
    \/ cmd_pause(1) /\ UNCHANGED mvars
    \/ cmd_resume(1) /\ UNCHANGED mvars
    \/ MonStart /\ UNCHANGED mvars
    \/ \E r \in Fetches : MonFetch(r) /\ UNCHANGED mvars
    \/ MonCheck /\ UNCHANGED mvars
    \/ MonSendOk /\ UNCHANGED mvars
    \/ MonSendFail /\ UNCHANGED mvars
    \/ MonMark /\ UNCHANGED mvars
    \/ MonNotifyOk /\ UNCHANGED mvars
    \/ MonNotifyFail /\ UNCHANGED mvars
    \/ MonMarkEmpty /\ UNCHANGED mvars
    \/ MonReturn /\ UNCHANGED mvars

SpecMonitor == Init /\ [][NextMonitor]_vars

\* with at most one listing fetched, every positive count acts as 1
ShortCounts == {0, 1}

\* fetches that return at most one listing
ShortFetches ==
    {r \in Fetches : Len(_aggregate_listings(r[1], r[2], r[3])) <= 1}

\* one user's commands, the monitoring pass and the initial-batch task,
\* interleaved at their await points; every fetch is a short one
Next ==
    \/ \E n \in ShortCounts : on_confirm(1, n) /\ UNCHANGED mvars
    \/ cmd_pause(1) /\ UNCHANGED mvars
    \/ cmd_resume(1) /\ UNCHANGED mvars
    \/ MonStart /\ UNCHANGED mvars
    \/ \E r \in ShortFetches : MonFetch(r) /\ UNCHANGED mvars
    \/ MonCheck /\ UNCHANGED mvars
    \/ MonSendOk /\ UNCHANGED mvars
    \/ MonSendFail /\ UNCHANGED mvars
    \/ MonMark /\ UNCHANGED mvars
    \/ MonNotifyOk /\ UNCHANGED mvars
    \/ MonNotifyFail /\ UNCHANGED mvars
    \/ MonMarkEmpty /\ UNCHANGED mvars
    \/ MonReturn /\ UNCHANGED mvars
    \/ IniEnter /\ UNCHANGED mvars
    \/ \E r \in ShortFetches : IniFetch(r) /\ UNCHANGED mvars
    \/ IniClassify /\ UNCHANGED mvars
    \/ IniSendOk /\ UNCHANGED mvars
    \/ IniSendFail /\ UNCHANGED mvars
    \/ IniMark /\ UNCHANGED mvars
    \/ IniNotifyOk /\ UNCHANGED mvars
    \/ IniNotifyFail /\ UNCHANGED mvars
    \/ IniMarkEmpty /\ UNCHANGED mvars
    \/ IniReturn /\ UNCHANGED mvars

Spec == Init /\ [][Next]_vars

\* the limits a direct call passes: negative, zero, positive
CallCounts == {-1, 0, 1, 2}

\* the initial-batch task alone, started by the wizard's confirmation or
\* called directly, one task at a time; rows of seen_listings come from the
\* batches that ran before
NextBatch ==
    \/ \E n \in InitialCounts : on_confirm(2, n) /\ UNCHANGED mvars
    \/ \E n \in CallCounts, t \in {IntNone, IntSome(0)} :
          CallInitial(2, n, t) /\ UNCHANGED mvars
    \/ IniEnter /\ UNCHANGED mvars
    \/ \E r \in Fetches : IniFetch(r) /\ UNCHANGED mvars
    \/ IniClassify /\ UNCHANGED mvars
    \/ IniSendOk /\ UNCHANGED mvars
    \/ IniSendFail /\ UNCHANGED mvars
    \/ IniMark /\ UNCHANGED mvars
    \/ IniNotifyOk /\ UNCHANGED mvars
    \/ IniNotifyFail /\ UNCHANGED mvars
    \/ IniMarkEmpty /\ UNCHANGED mvars
    \/ IniReturn /\ UNCHANGED mvars

SpecBatch == Init /\ [][NextBatch]_vars

\* fetches that return nothing or ListingA alone
PassFetches ==
    {r \in ShortFetches :
        \A k \in 1..3 : \A i \in 1..Len(r[k].results) : r[k].results[i] = ListingA}

\* the commands of two users and the monitoring pass, in which is_seen can
\* raise; a fetch returns one listing at most
NextPass ==
    \/ \E u \in Users : on_confirm(u, 0) /\ UNCHANGED mvars
    \/ \E u \in Users : cmd_pause(u) /\ UNCHANGED mvars
    \/ \E u \in Users : cmd_resume(u) /\ UNCHANGED mvars
    \/ MonStart /\ UNCHANGED mvars
    \/ \E r \in PassFetches : MonFetch(r) /\ UNCHANGED mvars
    \/ MonCheck /\ UNCHANGED mvars
    \/ MonCheckRaises /\ UNCHANGED mvars
    \/ MonSendOk /\ UNCHANGED mvars
    \/ MonSendFail /\ UNCHANGED mvars
    \/ MonMark /\ UNCHANGED mvars
    \/ MonNotifyOk /\ UNCHANGED mvars
    \/ MonNotifyFail /\ UNCHANGED mvars
    \/ MonMarkEmpty /\ UNCHANGED mvars
    \/ MonReturn /\ UNCHANGED mvars

SpecPass == Init /\ [][NextPass]_vars

\* one user's commands and the monitoring pass, in which is_seen and
\* mark_seen can raise
NextFault ==
    \/ on_confirm(1, 0) /\ UNCHANGED mvars
    \/ cmd_pause(1) /\ UNCHANGED mvars
    \/ cmd_resume(1) /\ UNCHANGED mvars
    \/ MonStart /\ UNCHANGED mvars
    \/ \E r \in Fetches : MonFetch(r) /\ UNCHANGED mvars
    \/ MonCheck /\ UNCHANGED mvars
    \/ MonCheckRaises /\ UNCHANGED mvars
    \/ MonSendOk /\ UNCHANGED mvars
    \/ MonSendFail /\ UNCHANGED mvars
    \/ MonMark /\ UNCHANGED mvars
    \/ MonMarkRaises /\ UNCHANGED mvars
    \/ MonNotifyOk /\ UNCHANGED mvars
    \/ MonNotifyFail /\ UNCHANGED mvars
    \/ MonMarkEmpty /\ UNCHANGED mvars
    \/ MonReturn /\ UNCHANGED mvars

SpecFault == Init /\ [][NextFault]_vars

\* one user's confirmations and edits and the monitoring pass; a fetch
\* returns one listing at most
NextEdit ==
    \/ on_confirm(1, 0) /\ UNCHANGED mvars
    \/ \E t \in EditTolerances : edit_tolerance(1, t) /\ UNCHANGED mvars
    \/ MonStart /\ UNCHANGED mvars
    \/ \E r \in ShortFetches : MonFetch(r) /\ UNCHANGED mvars
    \/ MonCheck /\ UNCHANGED mvars
    \/ MonSendOk /\ UNCHANGED mvars
    \/ MonSendFail /\ UNCHANGED mvars
    \/ MonMark /\ UNCHANGED mvars
    \/ MonNotifyOk /\ UNCHANGED mvars
    \/ MonNotifyFail /\ UNCHANGED mvars
    \/ MonMarkEmpty /\ UNCHANGED mvars
    \/ MonReturn /\ UNCHANGED mvars

SpecEdit == Init /\ [][NextEdit]_vars

\* the monitoring pass for user 2, for whom an approximate match can precede
\* a strict one in the candidate list
NextOrder ==
    \/ on_confirm(2, 0) /\ UNCHANGED mvars
    \/ MonStart /\ UNCHANGED mvars
    \/ \E r \in Fetches : MonFetch(r) /\ UNCHANGED mvars
    \/ MonCheck /\ UNCHANGED mvars
    \/ MonSendOk /\ UNCHANGED mvars
    \/ MonSendFail /\ UNCHANGED mvars
    \/ MonMark /\ UNCHANGED mvars
    \/ MonNotifyOk /\ UNCHANGED mvars
    \/ MonNotifyFail /\ UNCHANGED mvars
    \/ MonMarkEmpty /\ UNCHANGED mvars
    \/ MonReturn /\ UNCHANGED mvars

SpecOrder == Init /\ [][NextOrder]_vars

\* the monitoring pass for user 1 and, interleaved with it, the initial
\* batch called for user 2; every fetch is a short one
NextLabel ==
    \/ on_confirm(1, 0) /\ UNCHANGED mvars
    \/ MonStart /\ UNCHANGED mvars
    \/ \E r \in ShortFetches : MonFetch(r) /\ UNCHANGED mvars
    \/ MonCheck /\ UNCHANGED mvars
    \/ MonSendOk /\ UNCHANGED mvars
    \/ MonSendFail /\ UNCHANGED mvars
    \/ MonMark /\ UNCHANGED mvars
    \/ MonNotifyOk /\ UNCHANGED mvars
    \/ MonNotifyFail /\ UNCHANGED mvars
    \/ MonMarkEmpty /\ UNCHANGED mvars
    \/ MonReturn /\ UNCHANGED mvars
    \/ CallInitial(2, 1, IntNone) /\ UNCHANGED mvars
    \/ IniEnter /\ UNCHANGED mvars
    \/ \E r \in ShortFetches : IniFetch(r) /\ UNCHANGED mvars
    \/ IniClassify /\ UNCHANGED mvars
    \/ IniSendOk /\ UNCHANGED mvars
    \/ IniSendFail /\ UNCHANGED mvars
    \/ IniMark /\ UNCHANGED mvars
    \/ IniNotifyOk /\ UNCHANGED mvars
    \/ IniNotifyFail /\ UNCHANGED mvars
    \/ IniMarkEmpty /\ UNCHANGED mvars
    \/ IniReturn /\ UNCHANGED mvars

SpecLabel == Init /\ [][NextLabel]_vars

NextFetch ==
    \E r \in OfferedFetches : Aggregate(r) /\ UNCHANGED <<dbvars, sysvars>>

\* _aggregate_listings on every behaviour of the three searches
SpecFetch == Init /\ [][NextFetch]_vars

NextParse ==
    \E c \in CommissionInputs : Parse(c) /\ UNCHANGED <<dbvars, sysvars>>

\* _parse_commission_percent on every commission string tried
SpecParse == Init /\ [][NextParse]_vars

\* one user's monitoring passes over months, with the prune called between
\* the steps; a fetch returns nothing or the one listing
NextPrune ==
    \/ on_confirm(1, 0) /\ UNCHANGED mvars
    \/ MonStart /\ UNCHANGED mvars
    \/ \E r \in PassFetches : MonFetch(r) /\ UNCHANGED mvars
    \/ MonCheck /\ UNCHANGED mvars
    \/ MonSendOk /\ UNCHANGED mvars
    \/ MonSendFail /\ UNCHANGED mvars
    \/ MonMark /\ UNCHANGED mvars
    \/ MonNotifyOk /\ UNCHANGED mvars
    \/ MonNotifyFail /\ UNCHANGED mvars
    \/ MonMarkEmpty /\ UNCHANGED mvars
    \/ MonReturn /\ UNCHANGED mvars
    \/ Tick /\ UNCHANGED <<mvars, sysvars>>
    \/ \E w \in RetentionWindows : DbCleanupOld(w) /\ UNCHANGED <<mvars, sysvars>>

SpecPrune == Init /\ [][NextPrune]_vars

\* every writer of the database: the commands, the monitoring pass and the
\* initial batch with their calls of is_seen and mark_seen, cleanup_old, and
\* a restart of the process; every dispatch goes through
NextStore ==
    \/ on_confirm(1, 1) /\ UNCHANGED mvars
    \/ cmd_pause(1) /\ UNCHANGED mvars
    \/ cmd_resume(1) /\ UNCHANGED mvars
    \/ MonStart /\ UNCHANGED mvars
    \/ \E r \in PassFetches : MonFetch(r) /\ UNCHANGED mvars
    \/ MonCheck /\ UNCHANGED mvars
    \/ MonSendOk /\ UNCHANGED mvars
    \/ MonMark /\ UNCHANGED mvars
    \/ MonNotifyOk /\ UNCHANGED mvars
    \/ MonMarkEmpty /\ UNCHANGED mvars
    \/ MonReturn /\ UNCHANGED mvars
    \/ IniEnter /\ UNCHANGED mvars
    \/ \E r \in PassFetches : IniFetch(r) /\ UNCHANGED mvars
    \/ IniClassify /\ UNCHANGED mvars
    \/ IniSendOk /\ UNCHANGED mvars
    \/ IniMark /\ UNCHANGED mvars
    \/ IniNotifyOk /\ UNCHANGED mvars
    \/ IniMarkEmpty /\ UNCHANGED mvars
    \/ IniReturn /\ UNCHANGED mvars
    \/ \E w \in RetentionWindows : DbCleanupOld(w) /\ UNCHANGED <<mvars, sysvars>>
    \/ Tick /\ UNCHANGED <<mvars, sysvars>>
    \/ DbReconnect /\ UNCHANGED mvars

SpecStore == Init /\ [][NextStore]_vars

\* one user's dialogue with the bot: the wizard, the single-field edit,
\* pause and resume; the batch task a confirmation creates is not run here
NextWizard ==
    \/ cmd_search
    \/ on_city_text
    \/ \E c \in CityChoices : on_city_toggle(c)
    \/ on_city_done(1)
    \/ \E r \in RoomChoices : on_rooms_toggle(r)
    \/ on_rooms_done(1)
    \/ \E range \in PricePresets : on_price(1, range)
    \/ on_price_custom
    \/ \E v \in PriceMinTyped : on_price_custom_min(1, v)
    \/ \E v \in PriceMaxTyped : on_price_custom_max(1, v)
    \/ \E v \in AreaChoices : on_area(1, v)
    \/ \E v \in KitchenChoices : on_kitchen(1, v)
    \/ on_renovation_any(1)
    \/ on_renovation_done(1)
    \/ \E t \in RenovationChoices : on_renovation_toggle(t)
    \/ \E v \in PetsChoices : on_pets(1, v)
    \/ \E v \in CommissionPresets : on_commission(1, v)
    \/ on_commission_custom
    \/ \E v \in CommissionTyped : on_commission_text(1, v)
    \/ \E v \in TolerancePresets : on_tolerance(1, v)
    \/ on_tolerance_custom
    \/ \E v \in ToleranceTyped : on_tolerance_text(1, v)
    \/ \E v \in InitialPresets : on_initial_listings(1, v)
    \/ on_initial_listings_custom
    \/ \E v \in InitialTyped : on_initial_listings_text(1, v)
    \/ on_back(1)
    \/ on_confirm_start(1)
    \/ on_confirm_restart
    \/ \E field \in DOMAIN EditState : on_edit_filter_select(1, field)
    \/ on_edit_filter_back
    \/ bad_input
    \/ rate_limited
    \/ cmd_pause(1) /\ UNCHANGED mvars
    \/ cmd_resume(1) /\ UNCHANGED mvars

SpecWizard == Init /\ [][NextWizard]_vars

\* the price ranges of the buttons and the prices typed, the refused ones
\* included
PriceRanges == { <<0, 100>>, <<120, 0>>, <<120, 100>> }
PriceMinInputs == {0, 120}
PriceMaxInputs == {0, 100, 120}

NextPrice ==
    \/ cmd_search
    \/ on_city_toggle(1)
    \/ on_city_done(1)
    \/ on_rooms_done(1)
    \/ \E range \in PriceRanges : on_price(1, range)
    \/ on_price_custom
    \/ \E v \in PriceMinInputs : on_price_custom_min(1, v)
    \/ \E v \in PriceMaxInputs : on_price_custom_max(1, v)
    \/ on_area(1, 0)
    \/ on_kitchen(1, 0)
    \/ on_renovation_done(1)
    \/ on_pets(1, TRUE)
    \/ on_commission(1, 100)
    \/ on_tolerance(1, 10)
    \/ on_initial_listings(1, 0)
    \/ on_back(1)
    \/ on_confirm_start(1)
    \/ \E field \in {"price", "rooms"} : on_edit_filter_select(1, field)
    \/ \E field \in {"price", "rooms"} : on_edit_filter_select_no_message(1, field)
    \/ on_edit_filter_back

\* the wizard and the edits of one user with the price inputs that are
\* refused and accepted
SpecPrice == Init /\ [][NextPrice]_vars

NextDest == Resolve /\ UNCHANGED <<dbvars, sysvars>>

\* _resolve_destination over users, configurations and stored topics
InitResolve ==
    InitModels /\ InitBot /\ edit_call = NoEditCall /\ InitDest /\ InitDb /\ InitSys

SpecDest == InitResolve /\ [][NextDest]_vars

\* the number of cities on the keyboards
CityCount == 11

\* the city buttons the user presses: the first city, the largest selected
\* one and the one after it
CityPresses(cities) ==
    LET top == IF cities = <<>> THEN 0
               ELSE CHOOSE x \in Range(cities) : \A y \in Range(cities) : y <= x
    IN  {1, top, top + 1} \cap (1..CityCount)

NextCity ==
    \/ cmd_search
    \/ \E c \in CityPresses(DataGet(fsm_data, "cities", <<>>)) : on_city_toggle(c)
    \/ on_city_done(1)
    \/ on_rooms_done(1)
    \/ on_price(1, <<0, 100>>)
    \/ on_area(1, 0)
    \/ on_kitchen(1, 0)
    \/ on_renovation_done(1)
    \/ on_pets(1, TRUE)
    \/ on_commission(1, 100)
    \/ on_tolerance(1, 10)
    \/ on_initial_listings(1, 0)
    \/ on_back(1)
    \/ on_confirm_start(1)
    \/ on_confirm_restart
    \/ \E field \in {"city", "rooms"} : on_edit_filter_select(1, field)
    \/ \E field \in {"city", "rooms"} : on_edit_filter_select_no_message(1, field)
    \/ on_edit_filter_back

\* the wizard and the edits of one user with up to eleven cities
SpecCity == Init /\ [][NextCity]_vars

NextFrame == EditFrame /\ UNCHANGED <<dbvars, sysvars>>

\* _fsm_data_to_user_filter on two filters, every field and every choice of
\* keys in the data
InitEditFrame ==
    InitModels /\ InitBot /\ InitFrame /\ dest_call = NoDestCall /\ InitDb /\ InitSys

SpecFrame == InitEditFrame /\ [][NextFrame]_vars

NextRate ==
    \E u \in Users, t \in 0..MaxClock : RateCall(u, t) /\ UNCHANGED <<dbvars, sysvars>>

\* _is_rate_limited under calls of two users at any times
SpecRate == Init /\ [][NextRate]_vars

\* ------------------------------------------------------------------------
\* Claims about the matching engine (checked under SpecMatch)
\* ------------------------------------------------------------------------

\* the four hard criteria, as stated in the specification
HardCriteriaPass(f, l) ==
    /\ (f.rooms = {} \/ l.rooms \in f.rooms)
    /\ (f.renovation_types = {} \/ l.renovation \in f.renovation_types)
    /\ ~(f.pets_allowed /\ _listing_has_pet_ban(l))
    /\ \/ f.commission_max_percent >= 100
       \/ /\ ~_parse_commission_percent(l.commission).none
          /\ _parse_commission_percent(l.commission).val <= f.commission_max_percent

\* the set (non-zero) numeric thresholds the listing violates, each with its
\* violation d and its threshold thr
ViolatedThresholds(f, l) ==
    {v \in { [kind |-> "price_below", set |-> f.price_min # 0,
              d |-> f.price_min - l.price, thr |-> f.price_min],
             [kind |-> "price_above", set |-> f.price_max # 0,
              d |-> l.price - f.price_max, thr |-> f.price_max],
             [kind |-> "area_below", set |-> f.area_min # 0,
              d |-> f.area_min - l.total_area, thr |-> f.area_min],
             [kind |-> "kitchen_below", set |-> f.kitchen_area_min # 0,
              d |-> f.kitchen_area_min - l.kitchen_area, thr |-> f.kitchen_area_min] } :
        v.set /\ v.d > 0}

\* relative deviation d / thr <= t / 100
WithinTolerance(v, t) == v.d * 100 <= t * v.thr

Evaluated == m_pc \in {"done", "redone"}

\* C2: matches(filter, listing) is true if and only if all eight conditions
\* hold together.
C2_StrictMatchIffEightConditions ==
    Evaluated =>
        (matches_strict <=>
            /\ (uf.price_min = 0 \/ listing.price >= uf.price_min)
            /\ (uf.price_max = 0 \/ listing.price <= uf.price_max)
            /\ (uf.area_min = 0 \/ listing.total_area >= uf.area_min)
            /\ (uf.kitchen_area_min = 0 \/ listing.kitchen_area >= uf.kitchen_area_min)
            /\ (uf.rooms = {} \/ listing.rooms \in uf.rooms)
            /\ (uf.renovation_types = {} \/ listing.renovation \in uf.renovation_types)
            /\ ~(uf.pets_allowed /\ _listing_has_pet_ban(listing))
            /\ \/ uf.commission_max_percent >= 100
               \/ /\ ~_parse_commission_percent(listing.commission).none
                  /\ _parse_commission_percent(listing.commission).val
                        <= uf.commission_max_percent)

\* a strict match with all eight criteria active, the price exactly at both
\* of its bounds
C2_Witness ==
    /\ m_pc = "done" /\ matches_strict
    /\ uf.price_min = 100 /\ uf.price_max = 100 /\ listing.price = 100
    /\ uf.area_min # 0 /\ uf.kitchen_area_min # 0
    /\ uf.rooms # {} /\ uf.renovation_types # {} /\ uf.pets_allowed
    /\ uf.commission_max_percent < 100

\* C3: matches_approx returns a non-empty deviation list if and only if
\* tolerance_percent > 0, the hard criteria pass, at least one set threshold is
\* violated and every violated threshold deviates by at most the tolerance (a
\* deviation equal to it is accepted); the list has exactly one entry per
\* violated threshold.  Otherwise it returns None; never an empty list.
C3_ApproxResult ==
    Evaluated =>
        LET V == ViolatedThresholds(uf, listing)
            r == matches_approx_r
        IN  /\ ~r.none <=>
                  /\ uf.tolerance_percent > 0
                  /\ HardCriteriaPass(uf, listing)
                  /\ V # {}
                  /\ \A v \in V : WithinTolerance(v, uf.tolerance_percent)
            /\ ~r.none =>
                  /\ r.devs # <<>>
                  /\ Len(r.devs) = Cardinality(V)
                  /\ {r.devs[i].kind : i \in 1..Len(r.devs)} = {v.kind : v \in V}

\* two thresholds violated, one of them by exactly the tolerance
C3_Witness ==
    /\ m_pc = "done" /\ ~matches_approx_r.none
    /\ Len(matches_approx_r.devs) = 2
    /\ uf.price_max = 100 /\ listing.price = 110 /\ uf.tolerance_percent = 10

\* C4 (P1): a strict match is never an approximate match.
C4_StrictImpliesApproxNone ==
    (Evaluated /\ matches_strict) => matches_approx_r.none

\* a strict match under a positive tolerance with numeric thresholds set
C4_Witness ==
    /\ m_pc = "done" /\ matches_strict
    /\ uf.tolerance_percent = 20
    /\ uf.price_max # 0 /\ uf.area_min # 0

\* C5 (P3): a listing that violates a hard criterion is no approximate match,
\* at any tolerance, whatever the numeric fields are.
C5_HardCriteriaGate ==
    (Evaluated /\ ~HardCriteriaPass(uf, listing)) => matches_approx_r.none

\* only the commission is violated (it is unrecognized), a positive tolerance,
\* and the one violated numeric field is within the tolerance
C5_Witness ==
    /\ m_pc = "done" /\ matches_approx_r.none
    /\ uf.tolerance_percent = 20
    /\ uf.commission_max_percent < 100
    /\ _parse_commission_percent(listing.commission).none
    /\ (uf.rooms = {} \/ listing.rooms \in uf.rooms)
    /\ (uf.renovation_types = {} \/ listing.renovation \in uf.renovation_types)
    /\ ~_listing_has_pet_ban(listing)
    /\ ViolatedThresholds(uf, listing) # {}
    /\ \A v \in ViolatedThresholds(uf, listing) : WithinTolerance(v, 20)

\* C6 (P2): deviations at tolerance T imply deviations at every T' > T, and
\* None at every smaller T'' at which a violated criterion exceeds T''/100.
C6_MonotonicTolerance ==
    (m_pc = "redone" /\ ~prev_approx.none) =>
        /\ uf.tolerance_percent > prev_tol => ~matches_approx_r.none
        /\ ( /\ uf.tolerance_percent < prev_tol
             /\ \E v \in ViolatedThresholds(uf, listing) :
                    ~WithinTolerance(v, uf.tolerance_percent) )
           => matches_approx_r.none

\* deviations at T = 20, re-evaluated at T'' = 10 where the price deviation
\* of 20 % is too large
C6_Witness ==
    /\ m_pc = "redone" /\ ~prev_approx.none
    /\ prev_tol = 20 /\ uf.tolerance_percent = 10
    /\ uf.price_max = 100 /\ listing.price = 120
    /\ matches_approx_r.none

\* ------------------------------------------------------------------------
\* Claims about the storage layer (checked under SpecDb)
\* ------------------------------------------------------------------------

\* C10 (P4): is_seen(s, id, u) is false when mark_seen(s, id, u) was never
\* called and true after it was called once or more; a second mark_seen of
\* an already-seen triple leaves its row, with its sent_at, and every other
\* row unchanged.
C10_DedupIdempotence ==
    /\ db_op.op = "is_seen" => (db_op.result <=> db_op.key \in marked)
    /\ db_op.op = "mark_seen" =>
          is_seen(seen_listings, db_op.key[1], db_op.key[2], db_op.key[3])
    /\ (db_op.op = "mark_seen" /\ db_op.result) => seen_listings = db_op.before

\* a second mark_seen of a triple whose row was written at an earlier time,
\* with another row in the table
C10_Witness ==
    /\ db_op.op = "mark_seen" /\ db_op.result
    /\ \E row \in seen_listings : RowKey(row) = db_op.key /\ row.sent_at < now
    /\ Cardinality(seen_listings) >= 2

\* every triple of a source, a listing id and a user of the harness
AllKeys == Sources \X {1, 2} \X Users

\* C11 (P5): mark_seen(s, id, u) makes is_seen(s, id, u) true and leaves the
\* answer of is_seen for every other triple as it was, in particular for the
\* same id on another source and for the same listing and another user.
C11_TripleIsSoleKey ==
    db_op.op = "mark_seen" =>
        /\ is_seen(seen_listings, db_op.key[1], db_op.key[2], db_op.key[3])
        /\ \A k \in AllKeys :
              k # db_op.key =>
                  (is_seen(seen_listings, k[1], k[2], k[3])
                      <=> is_seen(db_op.before, k[1], k[2], k[3]))

\* the first mark_seen of (cian, 1, user 1) while the same id on avito and the
\* same listing for user 2 are not seen and another listing of cian is seen
C11_Witness ==
    /\ db_op.op = "mark_seen" /\ ~db_op.result
    /\ db_op.key = <<"cian", 1, 1>>
    /\ ~is_seen(seen_listings, "avito", 1, 1)
    /\ ~is_seen(seen_listings, "cian", 1, 2)
    /\ is_seen(seen_listings, "cian", 2, 1)


\* ------------------------------------------------------------------------
\* Claims about the monitoring pass (checked under SpecMonitor)
\* ------------------------------------------------------------------------

\* the triple of entry i of the candidate list and the user being processed
MonKey(i) == ListingKey(mon_listings[i], mon_filters[mon_u].user_id)

\* entry i matches the user's filter strictly or approximately
MonMatched(i) ==
    \/ matches(mon_filters[mon_u], mon_listings[i])
    \/ ~matches_approx(mon_filters[mon_u], mon_listings[i]).none

\* a dispatch was started for the entry
Attempted(e) == e.outcome \in {"attempt", "ok", "fail"}

\* the user's cycle is past its for loop
MonLoopOver == mon_pc \in {"notify", "mark_empty", "return"}

\* C1: over any sequence of monitoring cycles, no triple (source, listing_id,
\* user_id) is successfully dispatched by the monitoring cycle more than
\* once, be it a listing that comes back in a later cycle or a listing that
\* is in one candidate list several times.
C1_AtMostOnceDelivery ==
    \A k \in Triples : delivered[k].mon <= 1

\* a cycle that meets a listing delivered in an earlier cycle, then delivers
\* a listing and meets that listing again in the same candidate list
C1_Witness ==
    \E h, i, j \in DOMAIN mon_log :
        /\ h < i /\ i < j
        /\ mon_log[h].outcome = "seen" /\ ~mon_log[h].fresh
        /\ mon_listings[i] = mon_listings[j]
        /\ mon_log[i].outcome = "ok" /\ mon_log[i].fresh
        /\ mon_log[j].outcome = "seen"
        /\ delivered[MonKey(h)].mon = 1 /\ delivered[MonKey(i)].mon = 1

\* C8: a dispatch that raises does not end the user's cycle: the loop runs
\* over the whole candidate list, every entry that matches and is not seen
\* at its check gets a dispatch attempt, also after an earlier entry's
\* dispatch failed, and an entry is skipped as seen only if it is seen.
C8_FailureDoesNotAbortCycle ==
    /\ MonLoopOver => Len(mon_log) = Len(mon_listings)
    /\ \A j \in DOMAIN mon_log :
          /\ mon_log[j].outcome = "nomatch" => ~MonMatched(j)
          /\ Attempted(mon_log[j]) => MonMatched(j)
          /\ mon_log[j].outcome = "seen" =>
                is_seen(seen_listings, mon_listings[j].source,
                        mon_listings[j].listing_id, mon_filters[mon_u].user_id)

\* a finished cycle in which a dispatch failed and a later entry was
\* dispatched all the same
C8_Witness ==
    /\ mon_pc = "return"
    /\ \E i, j \in DOMAIN mon_log :
          /\ i < j
          /\ mon_log[i].outcome = "fail"
          /\ mon_log[j].outcome = "ok"
          /\ mon_listings[i] # mon_listings[j]

\* C9 as stated: a matching listing whose dispatch failed in an earlier cycle
\* is attempted again in the next cycle that returns it for the active user,
\* and nothing of cycle k itself attempts it a second time.
C9_Original ==
    /\ \A j \in DOMAIN mon_log : mon_log[j].due => Attempted(mon_log[j])
    /\ \A i, j \in DOMAIN mon_log :
          (i < j /\ mon_listings[i] = mon_listings[j] /\ mon_log[i].outcome = "fail")
              => ~Attempted(mon_log[j])

\* C9: a matching listing whose dispatch failed in an earlier cycle and that
\* has not been delivered to the user since is attempted again in the next
\* cycle that returns it for the active user; within a cycle an entry of the
\* candidate list is dispatched at most once (the dispatch in flight is the
\* first for its entry).
C9_RetryNextCycle ==
    /\ \A j \in DOMAIN mon_log :
          (mon_log[j].due /\ mon_log[j].fresh) => Attempted(mon_log[j])
    /\ mon_pc = "send" => (Len(mon_log) = mon_i /\ mon_log[mon_i].outcome = "attempt")

\* a cycle that dispatches again, and this time delivers, a listing whose
\* dispatch failed in an earlier cycle
C9_Witness ==
    \E j \in DOMAIN mon_log :
        /\ mon_log[j].due /\ mon_log[j].fresh
        /\ mon_log[j].outcome = "ok"
        /\ \A i \in DOMAIN mon_log : i < j => mon_listings[i] # mon_listings[j]

\* the filter object _process_user was called with
MonUserFilter == mon_filters[mon_u]

\* some entry of the candidate list matches strictly or approximately
MonAnyMatch == \E i \in DOMAIN mon_listings : MonMatched(i)

\* C12 as stated: a cycle with no matching candidate and empty_notified_at
\* unset dispatches exactly one notification and calls mark_empty_notified
\* exactly once; with empty_notified_at set it does neither.
C12_Original ==
    mon_pc = "return" =>
        /\ (~MonAnyMatch /\ MonUserFilter.empty_notified_at.none) =>
              (mon_notify.tried = 1 /\ mon_notify.marked = 1)
        /\ ~MonUserFilter.empty_notified_at.none =>
              (mon_notify.tried = 0 /\ mon_notify.marked = 0)

\* C12 (P7, first cycle): a cycle with no matching candidate and
\* empty_notified_at unset makes exactly one dispatch of the notification,
\* and calls mark_empty_notified once if that dispatch returned and not at
\* all if it raised; with empty_notified_at set there is no dispatch and no
\* call.
C12_EmptyNotificationOnce ==
    mon_pc = "return" =>
        /\ (~MonAnyMatch /\ MonUserFilter.empty_notified_at.none) =>
              (mon_notify.tried = 1 /\ mon_notify.marked = mon_notify.sent)
        /\ ~MonUserFilter.empty_notified_at.none =>
              (mon_notify.tried = 0 /\ mon_notify.marked = 0)

\* the end of a cycle over a candidate list without a match, for a user not
\* notified before: the notification went out and the mark was set
C12_Witness ==
    /\ mon_pc = "return"
    /\ mon_listings # <<>>
    /\ ~MonAnyMatch
    /\ MonUserFilter.empty_notified_at.none
    /\ mon_notify = [tried |-> 1, sent |-> 1, marked |-> 1]
    /\ ~user_filters[MonUserFilter.user_id].empty_notified_at.none

\* the user's cycle without a match is over and was not the first of its run
MonLaterEmptyCycle ==
    /\ mon_pc = "return"
    /\ ~MonAnyMatch
    /\ streak[MonUserFilter.user_id] # "none"

C14_MatchSuppressesEmptyNotification ==
    /\ mon_pc \in {"notify", "mark_empty"} => ~MonAnyMatch
    /\ (mon_pc = "return" /\ MonAnyMatch) => mon_notify = NoNotes

\* the end of a cycle that delivered nothing: of its matching listings one
\* was seen already and one failed in its dispatch; the user was not
\* notified before
C14_Witness ==
    /\ mon_pc = "return"
    /\ mon_counts.sent_count = 0 /\ mon_counts.approx_count = 0
    /\ MonUserFilter.empty_notified_at.none
    /\ \E i, j \in DOMAIN mon_log :
          /\ mon_log[i].outcome = "seen" /\ MonMatched(i)
          /\ mon_log[j].outcome = "fail"
    /\ mon_notify = NoNotes

\* ------------------------------------------------------------------------
\* Claims about the pass and the initial batch together (checked under Spec)
\* ------------------------------------------------------------------------

\* C7: mark_seen follows a dispatch that returned: the pass and the batch
\* reach their mark_seen call only from a successful dispatch of that listing
\* to that user, and every seen triple has a successful dispatch behind it.
C7_FailedDispatchNeverMarksSeen ==
    /\ \A row \in seen_listings :
          delivered[RowKey(row)].mon + delivered[RowKey(row)].ini > 0
    /\ mon_pc = "mark" =>
          (mon_log[mon_i].outcome = "ok" /\ delivered[MonKey(mon_i)].mon > 0)
    /\ ini_pc = "mark" =>
          delivered[ListingKey(ini_to_send[ini_i], ini_filter.user_id)].ini > 0

\* the batch and the pass have both failed to dispatch a listing, which is
\* not seen, while another listing was delivered and is seen
C7_Witness ==
    /\ ini_pc = "notify"
    /\ ini_to_send # <<>>
    /\ ini_flags.sent = 0
    /\ ~is_seen(seen_listings, ini_to_send[1].source, ini_to_send[1].listing_id,
                ini_filter.user_id)
    /\ \E i \in DOMAIN mon_log :
          /\ mon_log[i].outcome = "fail"
          /\ ~is_seen(seen_listings, mon_listings[i].source,
                      mon_listings[i].listing_id, mon_filters[mon_u].user_id)
    /\ seen_listings # {}

\* ------------------------------------------------------------------------
\* Claims about the initial batch (SpecBatch)
\* ------------------------------------------------------------------------

\* the listings whose dispatch the running batch has attempted, in order
IniAttempted == [i \in 1..Len(ini_log) |-> ini_log[i].listing]

\* the dispatches of the running batch that returned
IniDelivered == {i \in 1..Len(ini_log) : ini_log[i].outcome = "ok"}

\* l was seen by the batch's user when the batch started: it is seen now and
\* the batch has not delivered it
IniSeenAtStart(l) ==
    /\ is_seen(seen_listings, l.source, l.listing_id, ini_filter.user_id)
    /\ \A i \in IniDelivered : ini_log[i].listing # l

\* all unseen strict matches in source order followed by all unseen
\* approximate matches in source order
IniExpected ==
    LET unseen_strict(l) == ~IniSeenAtStart(l) /\ matches(ini_filter, l)
        unseen_approx(l) == /\ ~IniSeenAtStart(l)
                            /\ ~matches(ini_filter, l)
                            /\ ~matches_approx(ini_filter, l).none
    IN  SelectSeq(ini_listings, unseen_strict) \o SelectSeq(ini_listings, unseen_approx)

\* the send loop of the batch is over
IniLoopOver == ini_pc \in {"notify", "mark_empty", "return"}

\* C15: a batch with N = initial_listings_count > 0 attempts the dispatch of
\* exactly the first N entries of (unseen strict matches in source order,
\* then unseen approximate matches in source order), in that order; no
\* approximate match is attempted before a strict one, and at most N
\* dispatches return
C15_InitialBatchOrderAndLimit ==
    ini_filter.initial_listings_count > 0 =>
        LET N   == ini_filter.initial_listings_count
            exp == SubSeq(IniExpected, 1, Min(N, Len(IniExpected)))
            att == IniAttempted
        IN  /\ ini_pc \in {"send", "mark"} =>
                  /\ Len(att) <= Len(exp)
                  /\ att = SubSeq(exp, 1, Len(att))
            /\ IniLoopOver => att = exp
            /\ \A i, j \in 1..Len(att) :
                  i < j => ~(~matches(ini_filter, att[i]) /\ matches(ini_filter, att[j]))
            /\ Cardinality(IniDelivered) <= N

\* of the fetched A, C, B (C strict, A and B approximate) a batch of two has
\* attempted C, then A, and nothing else
C15_Witness ==
    /\ IniLoopOver
    /\ ini_filter.initial_listings_count = 2
    /\ ini_listings = <<ListingA, ListingC, ListingB>>
    /\ IniAttempted = <<ListingC, ListingA>>

\* C16: every step of a batch whose initial_listings_count is zero or
\* negative leaves the storage, the filters and the record of dispatches and
\* notifications as they were, fetches and classifies nothing, and the batch
\* returns 0
C16_NonPositiveLimitIsNoOp ==
    [][(/\ ini_pc # "idle"
        /\ ini_filter.initial_listings_count <= 0
        /\ inivars' # inivars)
       => /\ ini_pc' \in {"return", "idle"}
          /\ ini_listings' = <<>>
          /\ ini_flags'.sent = 0
          /\ UNCHANGED <<dbvars, fvars, hvars, nvars>>]_vars

\* a batch with a limit of zero is about to return; the user has seen
\* listings and was never notified of emptiness
C16_Witness ==
    /\ ini_pc = "return"
    /\ ini_filter.initial_listings_count = 0
    /\ seen_listings # {}
    /\ ini_filter.empty_notified_at.none

\* a candidate of the running batch matches its filter, strictly or
\* approximately, seen or not
IniAnyMatch ==
    \E i \in 1..Len(ini_listings) :
        \/ matches(ini_filter, ini_listings[i])
        \/ ~matches_approx(ini_filter, ini_listings[i]).none

\* C17: the batch dispatches the "no matching listings" notification and
\* calls mark_empty_notified only if no candidate matched, seen or unseen;
\* with a matching candidate it does neither, even when nothing was delivered
C17_BatchNotifiesOnlyWithoutMatch ==
    (ini_notify.tried > 0 \/ ini_notify.marked > 0) => ~IniAnyMatch

SourceOrder == <<"cian", "avito", "yandex">>

\* the entries of a list that come from one source, in the list's order
FromSource(all, src) ==
    LET from_src(l) == l.source = src
    IN  SelectSeq(all, from_src)

\* C19: a source whose search raises contributes nothing and every other
\* source's list is in the result whole and in its own order, the sources in
\* the order CIAN, Avito, Yandex: the result is the concatenation of the
\* lists of the sources that did not fail
C19_SourceFetchIsolation ==
    /\ \A k \in 1..3 :
          FromSource(agg_out, SourceOrder[k]) =
              IF agg_in[k].raises THEN <<>> ELSE agg_in[k].results
    /\ \A i, j \in 1..Len(agg_out) :
          i < j => \E a, b \in 1..3 :
                      /\ a <= b
                      /\ agg_out[i].source = SourceOrder[a]
                      /\ agg_out[j].source = SourceOrder[b]

\* CIAN raised, Avito and Yandex returned listings, and the result is
\* Avito's list followed by Yandex's
C19_Witness ==
    /\ agg_in[1].raises
    /\ agg_in[2].results # <<>>
    /\ agg_in[3].results # <<>>
    /\ agg_out = agg_in[2].results \o agg_in[3].results

\* ------------------------------------------------------------------------
\* Claims about the pass over the users (SpecPass)
\* ------------------------------------------------------------------------

\* the users _process_user was called for in the running pass, in order
PassUsers == [i \in 1..Len(pass_log) |-> pass_log[i].user]

\* the users of the filters get_active_filters returned to the running pass
PassFilterUsers == [i \in 1..Len(mon_filters) |-> mon_filters[i].user_id]

\* C20: in one pass _process_user is called exactly once for every filter
\* get_active_filters returned, in that order: while the pass runs the
\* calls made are the first filters of the list, and when the pass ends they
\* are the whole list, whether or not the processing of a user raised
C20_UserIsolationInPass ==
    /\ [](/\ Len(PassUsers) <= Len(PassFilterUsers)
          /\ PassUsers = SubSeq(PassFilterUsers, 1, Len(PassUsers)))
    /\ [][(mon_pc # "idle" /\ mon_pc' = "idle") => PassUsers = PassFilterUsers]_vars

\* the processing of user 1 raised and user 2 has been processed after it
C20_Witness ==
    /\ mon_pc = "return"
    /\ pass_log = <<[user |-> 1, raised |-> TRUE], [user |-> 2, raised |-> FALSE]>>

\* ------------------------------------------------------------------------
\* Claims about failures of the storage (SpecFault)
\* ------------------------------------------------------------------------

\* _process_user has tried to dispatch the listing of entry e
Dispatched(e) == e.outcome \in {"attempt", "ok", "fail", "mark_failed"}

\* C21: when is_seen or mark_seen fails while a user is processed, the
\* user's cycle stops: no later listing of the candidate list is dispatched
\* to the user in that cycle
C21_PersistenceFailureStopsCycle ==
    /\ (pass_log # <<>> /\ pass_log[Len(pass_log)].raised) => mon_pc = "return"
    /\ \A i, j \in 1..Len(mon_log) :
          (i < j /\ mon_log[i].outcome = "mark_failed") => ~Dispatched(mon_log[j])

\* ------------------------------------------------------------------------
\* Claims about pausing and resuming (SpecPass)
\* ------------------------------------------------------------------------

\* the users whose stored filter is active
ActiveUsers == {u \in DOMAIN user_filters : user_filters[u].is_active}

\* the users the running pass works for
PassUserSet == {mon_filters[i].user_id : i \in 1..Len(mon_filters)}

\* C22: a pass works for exactly the users whose stored filter is active when
\* it starts, with the filters as stored then; it fetches, dispatches and
\* notifies for those users only, so a user paused before the start gets
\* nothing from the pass; pausing changes is_active of that user's filter and
\* nothing else
C22_OnlyActiveUsersMonitored ==
    [][/\ (mon_pc = "idle" /\ mon_pc' # "idle") =>
             /\ {mon_filters'[i].user_id : i \in 1..Len(mon_filters')} = ActiveUsers
             /\ \A i \in 1..Len(mon_filters') :
                   mon_filters'[i] = user_filters[mon_filters'[i].user_id]
       /\ \A k \in Triples :
             delivered'[k].mon # delivered[k].mon => k[3] \in PassUserSet
       /\ (pass_log' # pass_log /\ pass_log' # <<>>) =>
             pass_log'[Len(pass_log')].user \in PassUserSet
       /\ mon_notify'.tried > mon_notify.tried =>
             pass_log[Len(pass_log)].user \in PassUserSet
       /\ \A u \in DOMAIN user_filters :
             (user_filters[u].is_active /\ ~user_filters'[u].is_active) =>
                 user_filters' = [user_filters EXCEPT ![u].is_active = FALSE]]_vars

\* user 1 is paused and the pass, started without them, has delivered a
\* listing to user 2
C22_Witness ==
    /\ mon_pc = "mark"
    /\ PassUserSet = {2}
    /\ 1 \in DOMAIN user_filters
    /\ ~user_filters[1].is_active
    /\ pass_log = <<[user |-> 2, raised |-> FALSE]>>

\* ------------------------------------------------------------------------
\* Claims about filter edits (SpecEdit)
\* ------------------------------------------------------------------------

\* the search criteria of a stored filter
Criteria(row) == [row EXCEPT !.is_active = TRUE, !.empty_notified_at = IntNone]

\* C23: after a user edits a filter field or confirms a new wizard run, the
\* stored empty_notified_at is unset, so a user who was notified of emptiness
\* is notified again by the next cycle without a match
C23_EditClearsEmptyNotified ==
    [][\A u \in DOMAIN user_filters :
          Criteria(user_filters'[u]) # Criteria(user_filters[u]) =>
              user_filters'[u].empty_notified_at.none]_vars

\* ------------------------------------------------------------------------
\* Claims about the dispatches of a cycle (SpecOrder)
\* ------------------------------------------------------------------------

RECURSIVE IsSubsequence(_, _)
\* a can be obtained from b by deleting entries
IsSubsequence(a, b) ==
    IF a = <<>> THEN TRUE
    ELSE IF b = <<>> THEN FALSE
    ELSE IF Head(a) = Head(b) THEN IsSubsequence(Tail(a), Tail(b))
    ELSE IsSubsequence(a, Tail(b))

\* C24: within one user's cycle the dispatch attempts are made in the order
\* of the aggregated candidate list: the dispatched listings are a
\* subsequence of the list, strict and approximate matches not reordered
C24_DispatchInCandidateOrder ==
    IsSubsequence(mon_trace.sends, mon_trace.fetched)

\* the list is A (approximate for user 2), then C (strict), and the cycle
\* has dispatched A and then C
C24_Witness ==
    /\ mon_trace.fetched = <<ListingA, ListingC>>
    /\ mon_trace.sends = <<ListingA, ListingC>>
    /\ mon_filters[mon_u].user_id = 2

\* ------------------------------------------------------------------------
\* Claims about what is dispatched, and how (SpecLabel)
\* ------------------------------------------------------------------------

\* listing l dispatched with the annotation note under filter f: l matches
\* strictly or approximately; a strict match carries no annotation, any other
\* carries the non-empty deviation list matches_approx returned
WellLabelled(f, l, note) ==
    /\ matches(f, l) \/ ~matches_approx(f, l).none
    /\ matches(f, l) => note.none
    /\ ~matches(f, l) => /\ ~note.none
                         /\ note.devs # <<>>
                         /\ note = matches_approx(f, l)

\* C25: every listing dispatched by the monitoring cycle or by the initial
\* batch was unseen when it was checked and matches the filter strictly or
\* approximately; a strict match goes out without a deviation annotation,
\* any other with the non-empty deviation list of matches_approx
C25_DispatchLabelling ==
    /\ \A i \in 1..Len(mon_trace.sends) :
          WellLabelled(mon_filters[mon_u], mon_trace.sends[i], mon_trace.notes[i])
    /\ mon_pc = "send" =>
          ~is_seen(seen_listings, mon_listings[mon_i].source,
                   mon_listings[mon_i].listing_id, mon_filters[mon_u].user_id)
    /\ \A i \in 1..Len(ini_log) :
          /\ WellLabelled(ini_filter, ini_log[i].listing, ini_log[i].deviations)
          /\ ~IniSeenAtStart(ini_log[i].listing)

\* the cycle has dispatched B, an approximate match for user 1, with its
\* deviations, and the batch has dispatched C, a strict match for user 2,
\* without any
C25_Witness ==
    /\ mon_trace.sends = <<ListingB>>
    /\ ~mon_trace.notes[1].none
    /\ Len(ini_log) = 1
    /\ ini_log[1].listing = ListingC
    /\ ini_log[1].deviations.none

\* ------------------------------------------------------------------------
\* Claims about _parse_commission_percent (SpecParse)
\* ------------------------------------------------------------------------

\* the argument as the function looks at it: lower case, no outer whitespace
ParsedLower == str_strip(str_lower(parse_call.arg))

\* the string counts as no commission: empty, "0", "0%", or with a marker
MeansNoCommission ==
    \/ parse_call.arg = <<>>
    \/ ParsedLower \in { <<"0">>, <<"0","%">> }
    \/ \E marker \in _NO_COMMISSION_MARKERS : str_contains(ParsedLower, marker)

\* the number that starts at position i of text: its integer digits and the
\* digits of its fraction, if a "." or "," and a digit follow
NumberAt(text, i) ==
    LET ip == DigitRun(text, i)
        a  == i + Len(ip)
        fp == IF a <= Len(text) /\ text[a] \in {".", ","} THEN DigitRun(text, a + 1) ELSE <<>>
    IN  [ip |-> ip, fp |-> fp, end |-> IF fp = <<>> THEN a ELSE a + 1 + Len(fp)]

Pow10(k) == IF k = 0 THEN 1 ELSE IF k = 1 THEN 10 ELSE 100

\* the integer nearest to the number ip.fp (of two nearest, the even one),
\* clamped to 0..100
NearestPercent(num) ==
    LET S == Pow10(Len(num.fp))
        X == DigitsToNat(num.ip) * S + DigitsToNat(num.fp)
        v == CHOOSE w \in 0..(DigitsToNat(num.ip) + 1) :
                 /\ 2 * (IF X >= w * S THEN X - w * S ELSE w * S - X) <= S
                 /\ 2 * (IF X >= w * S THEN X - w * S ELSE w * S - X) = S => w % 2 = 0
    IN  IF v > 100 THEN 100 ELSE v

\* the whole string is a number, optionally followed by "%"
IsNumberText(text) ==
    /\ text # <<>>
    /\ IsDigit(text[1])
    /\ LET rest == SubSeq(text, NumberAt(text, 1).end, Len(text))
       IN  \A i \in 1..Len(rest) :
               \/ IsSpace(rest[i])
               \/ rest[i] = "%" /\ i = Len(rest)

FirstDigit(text) ==
    CHOOSE i \in 1..Len(text) : IsDigit(text[i]) /\ \A j \in 1..(i - 1) : ~IsDigit(text[j])

C27_PruneKeepsLiveListingsSeen ==
    db_op.op = "cleanup_old" => \A k \in Triples : delivered[k].mon <= 1

\* ------------------------------------------------------------------------
\* Claims about the table seen_listings (SpecStore)
\* ------------------------------------------------------------------------

\* the step is a call of cleanup_old and nothing else
IsPruneStep ==
    /\ \E w \in RetentionWindows : seen_listings' = cleanup_old(seen_listings, now, w)
    /\ UNCHANGED <<now, marked, mvars, sysvars>>

\* C28: the rows of seen_listings are append-only: every step of the
\* monitoring pass, of the initial batch, of mark_seen, is_seen,
\* upsert_filter and set_active, and a close and reconnect of the database,
\* keeps every row as it is, so a triple that is seen stays seen; only a
\* call of cleanup_old removes rows
C28_SeenRecordsAppendOnly ==
    [][IsPruneStep \/ \A row \in seen_listings : row \in seen_listings']_vars

\* after a restart an older row is there, and both the pass and the batch
\* have called mark_seen for its triple
C28_Witness ==
    /\ db_op.op = "connect"
    /\ \E row \in seen_listings :
          /\ row.sent_at < now
          /\ delivered[RowKey(row)].mon > 0
          /\ delivered[RowKey(row)].ini > 0

\* ------------------------------------------------------------------------
\* Claims about the wizard (SpecWizard)
\* ------------------------------------------------------------------------

\* the criteria of a stored filter, by the key of the wizard data
CriteriaKeys == WizardKeys

\* the keys an edit of the field writes
FieldKeys(field) ==
    CASE field \in {"price", "price_custom"} -> {"price_min", "price_max"}
      [] field = "city" -> {"cities"}
      [] field = "rooms" -> {"rooms"}
      [] field = "area" -> {"area_min"}
      [] field = "kitchen" -> {"kitchen_area_min"}
      [] field = "renovation" -> {"renovation_types"}
      [] field = "pets" -> {"pets_allowed"}
      [] field = "commission" -> {"commission_max_percent"}
      [] field = "tolerance" -> {"tolerance_percent"}
      [] field = "initial_listings" -> {"initial_listings_count"}
      [] OTHER -> {}

\* the wizard states in which the edit of the field completes
CompletionStates(field) ==
    CASE field = "price" -> {"price", "price_custom_max"}
      [] field = "commission" -> {"commission", "commission_text"}
      [] field = "tolerance" -> {"tolerance", "tolerance_text"}
      [] field = "initial_listings" -> {"initial_listings", "initial_listings_text"}
      [] OTHER -> {EditState[field]}

\* the step writes the user's criteria
CriteriaWritten(u) ==
    /\ u \in DOMAIN user_filters'
    /\ u \in DOMAIN user_filters => Criteria(user_filters'[u]) # Criteria(user_filters[u])

\* the step is a confirmation of a wizard that went through every step
FullWizardConfirmed(u) ==
    /\ fsm_state = "confirm"
    /\ fsm_state' = "none"
    /\ "edit_filter" \notin DOMAIN fsm_data
    /\ WizardKeys \subseteq DOMAIN fsm_data
    /\ \A k \in CriteriaKeys : user_filters'[u][k] = fsm_data[k]

\* the step completes the edit of one field of the stored filter
SingleEditCompleted(u) ==
    /\ "edit_filter" \in DOMAIN fsm_data
    /\ fsm_state \in CompletionStates(fsm_data["edit_filter"])
    /\ fsm_state' = "none"
    /\ u \in DOMAIN user_filters
    /\ \A k \in CriteriaKeys \ FieldKeys(fsm_data["edit_filter"]) :
          user_filters'[u][k] = user_filters[u][k]

C30_RateLimiter ==
    rate_call.called =>
        LET u == rate_call.user
            t == rate_call.at
        IN  /\ rate_call.result <=>
                   /\ u \in DOMAIN rate_call.before
                   /\ t - rate_call.before[u] < RATE_LIMIT_SECONDS
            /\ last_request_ts = rate_call.accepted
            /\ rate_call.result => last_request_ts = rate_call.before
            /\ ~rate_call.result => last_request_ts[u] = t
            /\ \A v \in Users \ {u} :
                   /\ v \in DOMAIN last_request_ts <=> v \in DOMAIN rate_call.before
                   /\ v \in DOMAIN rate_call.before =>
                          last_request_ts[v] = rate_call.before[v]

\* user 1 is accepted exactly RATE_LIMIT_SECONDS after the last accepted
\* request, although a refused request came in between; user 2 has a time
\* of its own
C30_Witness ==
    /\ rate_call.called
    /\ rate_call.user = 1
    /\ ~rate_call.result
    /\ 1 \in DOMAIN rate_call.before
    /\ rate_call.at - rate_call.before[1] = RATE_LIMIT_SECONDS
    /\ 1 \in DOMAIN rate_call.refused
    /\ rate_call.refused[1] > rate_call.before[1]
    /\ rate_call.at - rate_call.refused[1] < RATE_LIMIT_SECONDS
    /\ 2 \in DOMAIN last_request_ts

\* ------------------------------------------------------------------------
\* Claims about the single-field edit (SpecFrame)
\* ------------------------------------------------------------------------

\* C31: the filter _fsm_data_to_user_filter builds for an edit of a field
\* takes the attributes of that field (both prices for the price) from the
\* wizard data and every other criterion and is_active from the base,
\* whatever other keys the data holds
C31_EditTouchesOneField ==
    edit_call.called =>
        /\ \A k \in WizardKeys :
              edit_call.result[k] =
                 IF k \in FieldKeys(edit_call.edit_field) /\ k \in DOMAIN edit_call.data
                 THEN edit_call.data[k]
                 ELSE edit_call.base[k]
        /\ edit_call.result.is_active = edit_call.base.is_active
        /\ edit_call.result.user_id = edit_call.user_id

\* an edit of the price with data that differs from the base in every key:
\* the prices come from the data, the rooms and the cities from the base
C31_Witness ==
    /\ edit_call.called
    /\ edit_call.edit_field = "price"
    /\ WizardKeys \subseteq DOMAIN edit_call.data
    /\ \A k \in WizardKeys : edit_call.data[k] # edit_call.base[k]
    /\ edit_call.result.price_min = edit_call.data["price_min"]
    /\ edit_call.result.price_max = edit_call.data["price_max"]
    /\ edit_call.result.rooms = edit_call.base.rooms
    /\ edit_call.result.cities = edit_call.base.cities

\* ------------------------------------------------------------------------
\* Claims about the price range (SpecPrice)
\* ------------------------------------------------------------------------

\* the maximum is unbounded or not below the minimum
PriceRangeValid(price_min, price_max) == price_max = 0 \/ price_min <= price_max

\* the step is on_price_custom_max handling a typed maximum that is not
\* zero and below the minimum of the wizard data
LowMaximumTyped ==
    /\ fsm_state = "price_custom_max"
    /\ price_input'.typed
    /\ price_input'.value # 0
    /\ price_input'.value < DataGet(fsm_data, "price_min", 0)

\* C32: a typed maximum that is not zero and below the minimum of the
\* wizard data changes neither the data nor the step nor the stored filter,
\* and every stored filter has a maximum of zero or a minimum not above it
C32_PriceRangeValidated ==
    /\ [][LowMaximumTyped =>
             /\ fsm_data' = fsm_data
             /\ fsm_state' = fsm_state
             /\ user_filters' = user_filters]_vars
    /\ [](\A u \in DOMAIN user_filters :
             PriceRangeValid(user_filters[u].price_min, user_filters[u].price_max))

\* in an edit of the stored range 0..100 the minimum 120 was typed and the
\* maximum 100 was refused: the data holds 120 and 100, the filter is as before
C32_Witness ==
    /\ fsm_state = "price_custom_max"
    /\ price_input = [typed |-> TRUE, value |-> 100]
    /\ DataGet(fsm_data, "edit_filter", "") = "price"
    /\ fsm_data["price_min"] = 120
    /\ fsm_data["price_max"] = 100
    /\ 1 \in DOMAIN user_filters
    /\ user_filters[1].price_min = 0
    /\ user_filters[1].price_max = 100

\* ------------------------------------------------------------------------
\* Claims about the destination (SpecDest)
\* ------------------------------------------------------------------------

\* C33: for a user who is not the administrator the destination is the
\* user's own chat without a topic; for the administrator it is the stored
\* group topic if there is one, else the group chat and topic of the
\* configuration if both are set, else the administrator's own chat
C33_DestinationRouting ==
    dest_call.called =>
        LET u == dest_call.user_id
            config == dest_call.config
            topic == dest_call.topic_config
            own == [chat_id |-> u, message_thread_id |-> IntNone]
        IN  /\ u # config.admin_user_id => dest_call.result = own
            /\ u = config.admin_user_id /\ ~topic.none =>
                   /\ dest_call.result.chat_id = topic.chat_id
                   /\ dest_call.result.message_thread_id = IntSome(topic.message_thread_id)
            /\ /\ u = config.admin_user_id
               /\ topic.none
               /\ ~config.group_chat_id.none
               /\ ~config.group_topic_id.none
               => /\ dest_call.result.chat_id = config.group_chat_id.val
                  /\ dest_call.result.message_thread_id = config.group_topic_id
            /\ /\ u = config.admin_user_id
               /\ topic.none
               /\ config.group_chat_id.none \/ config.group_topic_id.none
               => dest_call.result = own

\* the administrator 42 with a stored topic and a group in the
\* configuration: the stored topic is the destination
C33_Witness ==
    /\ dest_call.called
    /\ dest_call.user_id = 42
    /\ dest_call.config.admin_user_id = 42
    /\ dest_call.topic_config = TopicSome(-100, 555)
    /\ dest_call.config.group_chat_id = IntSome(-200)
    /\ dest_call.config.group_topic_id = IntSome(7)
    /\ dest_call.result.chat_id = -100
    /\ dest_call.result.message_thread_id = IntSome(555)

\* ------------------------------------------------------------------------
\* Claims about the cities (SpecCity)
\* ------------------------------------------------------------------------

\* a list of one to MAX_CITIES_SELECT cities without a repeated one
CitiesWellFormed(cities) ==
    /\ cities # <<>>
    /\ Len(cities) <= MAX_CITIES_SELECT
    /\ \A i, j \in 1..Len(cities) : cities[i] = cities[j] => i = j

\* the wizard is in the city step and no city is selected
NoCitySelected ==
    /\ fsm_state = "city"
    /\ DataGet(fsm_data, "cities", <<>>) = <<>>

C35_NoDoubleDeliveryUnderInterleaving ==
    \A k \in Triples : ~(delivered[k].mon > 0 /\ delivered[k].ini > 0)

\* ------------------------------------------------------------------------
\* Claims about one run of the initial batch (SpecBatch)
\* ------------------------------------------------------------------------

\* C36: in one run of send_initial_listings no (source, listing_id) is
\* successfully dispatched twice, also when the candidate list holds the
\* same listing several times
C36_NoDuplicateInsideBatch ==
    \A i, j \in IniDelivered :
        /\ ini_log[i].listing.source = ini_log[j].listing.source
        /\ ini_log[i].listing.listing_id = ini_log[j].listing.listing_id
        => i = j

\* ------------------------------------------------------------------------
\* Claims about the emptiness mark (Spec)
\* ------------------------------------------------------------------------

\* the step is the emptiness notification of the cycle raising
MonNotifyFailed ==
    /\ mon_pc = "notify"
    /\ mon_notify'.tried = mon_notify.tried + 1
    /\ mon_notify'.sent = mon_notify.sent

\* the step is the emptiness notification of the initial batch raising
IniNotifyFailed ==
    /\ ini_pc = "notify"
    /\ ini_notify'.tried = ini_notify.tried + 1
    /\ ini_notify'.sent = ini_notify.sent

\* the step leaves the filters, the seen rows and the deliveries alone
NoMarkNoListingChange ==
    /\ user_filters' = user_filters
    /\ seen_listings' = seen_listings
    /\ marked' = marked
    /\ delivered' = delivered

\* C37: in the monitoring cycle and in the initial batch
\* mark_empty_notified is called only after the emptiness notification was
\* sent; when sending it raises, the mark is not written, the processing of
\* the user returns normally and no listing state changes
C37_MarkFollowsSentNotification ==
    /\ [](mon_notify.marked <= mon_notify.sent /\ ini_notify.marked <= ini_notify.sent)
    /\ [](mon_pc = "mark_empty" => mon_notify.sent > 0)
    /\ [](ini_pc = "mark_empty" => ini_notify.sent > 0)
    /\ [][MonNotifyFailed => mon_pc' = "return" /\ NoMarkNoListingChange]_vars
    /\ [][IniNotifyFailed => ini_pc' = "return" /\ NoMarkNoListingChange]_vars

\* the notification of the cycle and the one of the initial batch both
\* raised: neither wrote the mark, both are about to return
C37_Witness ==
    /\ mon_pc = "return"
    /\ mon_notify = [tried |-> 1, sent |-> 0, marked |-> 0]
    /\ ini_pc = "return"
    /\ ini_notify = [tried |-> 1, sent |-> 0, marked |-> 0]
    /\ user_filters[1].empty_notified_at.none

\* ------------------------------------------------------------------------
\* C38: a value of 0 against a set minimum
\* ------------------------------------------------------------------------

\* the listing reports no price, total area or kitchen area (the value is 0)
\* while the filter sets the corresponding minimum
UnknownUnderMinimum ==
    \/ uf.price_min # 0 /\ listing.price = 0
    \/ uf.area_min # 0 /\ listing.total_area = 0
    \/ uf.kitchen_area_min # 0 /\ listing.kitchen_area = 0

\* C38: for every tolerance_percent in 0..50 a listing whose price,
\* total_area or kitchen_area is 0 matches a filter whose corresponding
\* minimum is non-zero neither strictly nor approximately
C38_UnknownNeverMatchesMinimum ==
    (Evaluated /\ uf.tolerance_percent \in 0..50 /\ UnknownUnderMinimum) =>
        (~matches_strict /\ matches_approx_r.none)

\* evaluated at the largest tolerance: the kitchen area alone is 0 under a
\* set minimum, the total area is within the tolerance of its minimum and
\* every other criterion passes, so the 0 alone decides the rejection
C38_Witness ==
    /\ Evaluated
    /\ uf.tolerance_percent = 50
    /\ uf.kitchen_area_min # 0 /\ listing.kitchen_area = 0
    /\ uf.price_min # 0 /\ listing.price >= uf.price_min
    /\ uf.price_max = 0
    /\ uf.area_min # 0 /\ listing.total_area = 452
    /\ uf.rooms # {} /\ listing.rooms \in uf.rooms
    /\ uf.renovation_types # {} /\ listing.renovation \in uf.renovation_types
    /\ uf.pets_allowed /\ ~_listing_has_pet_ban(listing)
    /\ uf.commission_max_percent = 50
    /\ ~_parse_commission_percent(listing.commission).none
    /\ _parse_commission_percent(listing.commission).val <= 50
    /\ ~matches_strict
    /\ matches_approx_r.none

====
